---- MODULE Spec2Model ----
(***************************************************************************)
(* A model of the CAPTCHA service of captcha-service/main.py and           *)
(* captcha-service/fingerprint.py: the PoW subsystem (issue, verify, nonce *)
(* ledger), the image and video session stores, the risk analyzer, the     *)
(* verification coordinator, the jigsaw cut and the video stream.          *)
(*                                                                         *)
(* Modelling conventions                                                   *)
(*  - Time.  time.time() is a float; the model's clock `now` counts ticks  *)
(*    of 1/TicksPerSec second, and int(time.time()) is now \div            *)
(*    TicksPerSec.  The clock is monotonic and is observed at the instants *)
(*    of Instants (or Epochs).  A handler runs within one tick: the clock  *)
(*    readings it takes are equal.                                         *)
(*  - Handlers.  Every endpoint is an `async def` without an await, so it  *)
(*    runs to completion on the event loop: one action per handler.        *)
(*  - Strings.  Payloads and ledger keys are built by string concatenation *)
(*    exactly as the f-strings of the source build them.                   *)
(*  - Cryptography.  HMAC-SHA256 is a symbolic term over (key, message):   *)
(*    two digests are equal iff key and message are equal.  A client knows *)
(*    the signatures the server issued and can build terms only with keys  *)
(*    it knows.  os.urandom and uuid4 return fresh values.                 *)
(*  - Floats.  Fractional quantities are integers in a fixed unit: video   *)
(*    targets and slider fractions in 1/UNIT, velocities, deltas and       *)
(*    values in 1/100.  A target is a double drawn by random.uniform; the  *)
(*    samples lie off the grid of slider/1000 as almost every draw does,   *)
(*    so no comparison of the model falls within rounding of its bound.    *)
(*    The arithmetic of the video compositor is rounded: its floats have   *)
(*    FLOAT_BITS significant bits instead of 53.  The edge curves of the   *)
(*    jigsaw cut are exact, in 1/BEZIER_DEN pixel.                         *)
(*  - Streams.  A stream generator runs in a worker thread: each of its    *)
(*    reads of the session store is one step, interleaved with the         *)
(*    handlers.                                                            *)
(***************************************************************************)
EXTENDS Integers, Sequences, FiniteSets, TLC

VARIABLES
    now,                     \* time.time(), in ticks
    captcha_sessions,        \* main.py captcha_sessions: id -> CaptchaSession
    video_captcha_sessions,  \* main.py video_captcha_sessions: id -> challenge
    pow_used_nonces,         \* main.py pow_used_nonces: "salt:nonce" -> expiry
    issued,                  \* the PoW challenges /pow-challenge has returned
    last,                    \* the last request handled and its response
    born,                    \* history: id -> clock at which the session was stored
    pow_successes,           \* history: <<salt, nonce>> -> times verify_pow returned None
    solved_pow,              \* history: PoW fields of the requests answered success: true
    attempts,                \* history: id -> attempts evaluated against the session, and
                             \* how many of them were answered success: true
    streams,                 \* the generators of _generate_video_stream, in the
                             \* order in which /video-captcha-stream created them
    slider_updates           \* history: id -> slider_value of the last update
                             \* /video-captcha-slider answered success: true

vars == <<now, captcha_sessions, video_captcha_sessions, pow_used_nonces,
          issued, last, born, pow_successes, solved_pow, attempts, streams, slider_updates>>

----------------------------------------------------------------------------
(* Bounds of the model *)

TicksPerSec == 2
MaxEpoch == 1
MaxOffset == 2
MaxChallenges == 1
MaxImageSessions == 1
MaxVideoSessions == 1
MaxNonce == 2
MaxValue == 8
MaxStreams == 1
FrameCount == 1

----------------------------------------------------------------------------
(* Program constants *)

POW_CHALLENGE_TTL == 300
TOLERANCE == 3
SLIDER_MAX == 1000
UNIT == 1000000
VIDEO_TOLERANCE == 30000
TARGET_MIN == 400000
TARGET_MAX == 800000
MIN_GAP == 8
GRID_SIZE == 3
CAPTCHA_SIZE == 300
PIECE_SIZE == CAPTCHA_SIZE \div GRID_SIZE
TAB_REACH == 25
RETRIES == 200
POW_SERVER_SECRET == "c3ab8ff13720e8ad9047dd39466b3c8974e592c2fa383d4a3960714caef0c4f2"

----------------------------------------------------------------------------
(* Generic helpers *)

Max(a, b) == IF a >= b THEN a ELSE b
Min(a, b) == IF a <= b THEN a ELSE b
Abs(a) == IF a >= 0 THEN a ELSE -a

\* int(time.time()): whole seconds of a clock reading
IntTime(t) == t \div TicksPerSec

\* t + POW_CHALLENGE_TTL on the float clock
PlusTTL(t) == t + POW_CHALLENGE_TTL * TicksPerSec

\* The instants at which the clock is observed: MaxOffset ticks after every
\* multiple of the challenge lifetime.
Instants ==
    { e * POW_CHALLENGE_TTL * TicksPerSec + k : e \in 0..MaxEpoch, k \in 0..MaxOffset }

\* The multiples of the challenge lifetime, one more than Instants covers.
Epochs == { e * POW_CHALLENGE_TTL * TicksPerSec : e \in 0..(MaxEpoch + 1) }

----------------------------------------------------------------------------
(* PoW: issue *)

\* hmac.new(key, msg, sha256).hexdigest(), as a symbolic term
HmacSha256(key, msg) == <<"hmac-sha256", key, msg>>

\* f"{salt}{difficulty}.{timestamp}": the first separator forgotten
PayloadNoSeparator(salt, difficulty, timestamp) ==
    salt \o ToString(difficulty) \o "." \o ToString(timestamp)

\* f"{salt}.{difficulty}.{timestamp}"
Payload(salt, difficulty, timestamp) ==
    salt \o "." \o ToString(difficulty) \o "." \o ToString(timestamp)

\* the signature both generate_pow_challenge and verify_pow compute
ExpectedSig(salt, difficulty, timestamp) ==
    HmacSha256(POW_SERVER_SECRET, Payload(salt, difficulty, timestamp))

\* os.urandom(16).hex(): the n-th salt drawn is fresh
FreshSalt(n) == "a" \o ToString(n)

\* generate_pow_challenge signing time.time() as read, not int(time.time())
generate_pow_challenge_raw_clock(difficulty, t, n) ==
    LET salt == FreshSalt(n)
        timestamp == IntTime(t)
    IN  [ salt |-> salt,
          difficulty |-> difficulty,
          timestamp |-> timestamp,
          signature |-> ExpectedSig(salt, difficulty, t) ]

\* generate_pow_challenge(difficulty) called when the clock reads t, as the
\* n-th challenge
generate_pow_challenge(difficulty, t, n) ==
    LET salt == FreshSalt(n)
        timestamp == IntTime(t)
    IN  [ salt |-> salt,
          difficulty |-> difficulty,
          timestamp |-> timestamp,
          signature |-> ExpectedSig(salt, difficulty, timestamp) ]

----------------------------------------------------------------------------
(* PoW: verify *)

None == "None"
ErrSignature == "Invalid PoW signature."
ErrExpired == "PoW challenge expired."
ErrReplay == "PoW nonce already used."
ErrHash == "PoW nonce does not satisfy difficulty target."
PowErrors == {ErrSignature, ErrExpired, ErrReplay, ErrHash}

\* The number of leading zero bits of SHA-256(salt "." hex(nonce)).  The hash
\* is a fixed function of (salt, nonce); the model's stand-in spreads the
\* nonces of every salt over the values 0, 16, 20 and 24.
LeadingZeroBits(salt, nonce) ==
    LET table == <<0, 20, 16, 24>>
    IN  table[((Len(salt) + nonce) % 4) + 1]

\* _verify_pow_nonce: solve_challenge(salt, difficulty, nonce, 1) == nonce,
\* with the native solver loaded
verify_pow_nonce(salt, difficulty, nonce) ==
    LeadingZeroBits(salt, nonce) >= difficulty

\* _purge_expired_nonces() when the clock reads t
purge_expired_nonces(nonces, t) ==
    LET live == { k \in DOMAIN nonces : ~(nonces[k] <= t) }
    IN  [ k \in live |-> nonces[k] ]

\* f"{salt}:{nonce}"
ReplayKey(salt, nonce) == salt \o ":" \o ToString(nonce)

\* hmac.compare_digest(signature, expected_sig)
SignatureOk(salt, difficulty, timestamp, signature) ==
    signature = ExpectedSig(salt, difficulty, timestamp)

\* the freshness test with age >= POW_CHALLENGE_TTL: one second short
FreshOffByOne(timestamp, t) ==
    LET age == IntTime(t) - timestamp
    IN  ~(age < 0 \/ age >= POW_CHALLENGE_TTL)

\* age = int(time.time()) - timestamp; the challenge is fresh unless
\* age < 0 or age > POW_CHALLENGE_TTL
Fresh(timestamp, t) ==
    LET age == IntTime(t) - timestamp
    IN  ~(age < 0 \/ age > POW_CHALLENGE_TTL)

\* verify_pow with the freshness test made before the signature test
verify_pow_freshness_first(salt, difficulty, timestamp, signature, nonce, t1, t2, t3, nonces) ==
    IF ~Fresh(timestamp, t1)
    THEN [ result |-> ErrExpired, nonces |-> nonces ]
    ELSE IF ~SignatureOk(salt, difficulty, timestamp, signature)
    THEN [ result |-> ErrSignature, nonces |-> nonces ]
    ELSE LET purged == purge_expired_nonces(nonces, t2)
             replay_key == ReplayKey(salt, nonce)
         IN  IF replay_key \in DOMAIN purged
             THEN [ result |-> ErrReplay, nonces |-> purged ]
             ELSE IF ~verify_pow_nonce(salt, difficulty, nonce)
             THEN [ result |-> ErrHash, nonces |-> purged ]
             ELSE [ result |-> None,
                    nonces |-> [ k \in DOMAIN purged \cup {replay_key} |->
                                   IF k = replay_key THEN PlusTTL(t3)
                                   ELSE purged[k] ] ]

\* verify_pow(salt, difficulty, timestamp, signature, nonce) run against the
\* ledger `nonces`; its three clock readings are t1 (freshness), t2 (purge)
\* and t3 (burn).  Returns the result and the ledger it leaves.
\* a variant that burns the nonce before it tests the hash
verify_pow_burn_first(salt, difficulty, timestamp, signature, nonce, t1, t2, t3, nonces) ==
    IF ~SignatureOk(salt, difficulty, timestamp, signature)
    THEN [ result |-> ErrSignature, nonces |-> nonces ]
    ELSE IF ~Fresh(timestamp, t1)
    THEN [ result |-> ErrExpired, nonces |-> nonces ]
    ELSE LET purged == purge_expired_nonces(nonces, t2)
             replay_key == ReplayKey(salt, nonce)
             burned == [ k \in DOMAIN purged \cup {replay_key} |->
                           IF k = replay_key THEN PlusTTL(t3) ELSE purged[k] ]
         IN  IF replay_key \in DOMAIN purged
             THEN [ result |-> ErrReplay, nonces |-> purged ]
             ELSE IF ~verify_pow_nonce(salt, difficulty, nonce)
             THEN [ result |-> ErrHash, nonces |-> burned ]
             ELSE [ result |-> None, nonces |-> burned ]

verify_pow(salt, difficulty, timestamp, signature, nonce, t1, t2, t3, nonces) ==
    IF ~SignatureOk(salt, difficulty, timestamp, signature)
    THEN [ result |-> ErrSignature, nonces |-> nonces ]
    ELSE IF ~Fresh(timestamp, t1)
    THEN [ result |-> ErrExpired, nonces |-> nonces ]
    ELSE LET purged == purge_expired_nonces(nonces, t2)
             replay_key == ReplayKey(salt, nonce)
         IN  IF replay_key \in DOMAIN purged
             THEN [ result |-> ErrReplay, nonces |-> purged ]
             ELSE IF ~verify_pow_nonce(salt, difficulty, nonce)
             THEN [ result |-> ErrHash, nonces |-> purged ]
             ELSE [ result |-> None,
                    nonces |-> [ k \in DOMAIN purged \cup {replay_key} |->
                                   IF k = replay_key THEN PlusTTL(t3)
                                   ELSE purged[k] ] ]

----------------------------------------------------------------------------
(* Risk analyzer (fingerprint.py) *)

\* Optional values: <<>> is None, <<v>> is v.
Nothing == <<>>
Some(v) == <<v>>
IsSome(o) == Len(o) > 0
Get(o) == o[1]

RECURSIVE SumSeq(_)
SumSeq(s) == IF Len(s) = 0 THEN 0 ELSE Head(s) + SumSeq(Tail(s))

Range(s) == { s[i] : i \in 1..Len(s) }

Squares(s) == [ i \in 1..Len(s) |-> s[i] * s[i] ]

\* Python's int(x) of a float held in 1/100: truncation toward zero
TruncCenti(v) == IF v >= 0 THEN v \div 100 ELSE -((-v) \div 100)

\* sum((x - mean) ** 2) / n < limit for the non-empty list xs, evaluated
\* exactly: n * sum(x^2) - sum(x)^2 < limit * n^2 (limit in the unit of xs
\* squared)
VarianceBelow(xs, limit) ==
    LET n == Len(xs)
        sum == SumSeq(xs)
    IN  n * SumSeq(Squares(xs)) - sum * sum < limit * n * n

\* a variant that keeps three points
parse_trajectory_keep3(trajectory) ==
    LET kept == SubSeq(trajectory, 1, Min(Len(trajectory), 3))
    IN  [ i \in 1..Len(kept) |->
            [ kept[i] EXCEPT !.time_delta_ms = Max(0, kept[i].time_delta_ms) ] ]

\* parse_trajectory: at most 600 points, time_delta_ms clamped at 0
parse_trajectory(trajectory) ==
    LET kept == SubSeq(trajectory, 1, Min(Len(trajectory), 600))
    IN  [ i \in 1..Len(kept) |->
            [ kept[i] EXCEPT !.time_delta_ms = Max(0, kept[i].time_delta_ms) ] ]

\* parse_behavior: None unless the behaviour is a dict; counters clamped at 0
parse_behavior(behavior) ==
    IF ~IsSome(behavior) THEN Nothing
    ELSE LET b == Get(behavior)
         IN  Some([ total_duration_ms |-> Max(0, b.total_duration_ms),
                    event_count |-> Max(0, b.event_count),
                    mouse_down_count |-> Max(0, b.mouse_down_count),
                    mouse_move_count |-> Max(0, b.mouse_move_count) ])

\* CaptchaSession(solved_value, fingerprint, trajectory, behavior)
CaptchaSession(solved_value, fingerprint, trajectory, behavior) ==
    [ solved_value |-> solved_value,
      fingerprint |-> fingerprint,
      trajectory |-> trajectory,
      behavior |-> behavior ]

\* a variant that reports the flag and leaves the score alone
FlagOnly(acc, name, points) ==
    [ flags |-> Append(acc.flags, name), score |-> acc.score ]

\* flags.append(name); score -= points
Flag(acc, name, points) ==
    [ flags |-> Append(acc.flags, name), score |-> acc.score - points ]

FlagIf(cond, acc, name, points) == IF cond THEN Flag(acc, name, points) ELSE acc

\* the fingerprint rules of analyze_bot_risk
FingerprintRules(session, acc) ==
    IF IsSome(session.fingerprint)
    THEN LET fp == Get(session.fingerprint)
             a1 == FlagIf(fp.user_agent_len < 20, acc, "suspicious_user_agent", 20)
             a2 == FlagIf(~IsSome(fp.screen_resolution)
                          \/ (IsSome(fp.screen_resolution)
                              /\ (Get(fp.screen_resolution)[1] <= 0
                                  \/ Get(fp.screen_resolution)[2] <= 0)),
                          a1, "invalid_screen_resolution", 15)
             a3 == FlagIf(fp.webdriver, a2, "webdriver_detected", 35)
             a4 == FlagIf(~fp.timezone_name, a3, "missing_timezone", 5)
         IN  FlagIf(~fp.canvas_fingerprint, a4, "missing_canvas_fingerprint", 10)
    ELSE Flag(acc, "missing_fingerprint", 30)

\* the trajectory rules of analyze_bot_risk
TrajectoryRules(session, acc) ==
    IF Len(session.trajectory) >= 4
    THEN LET tr == session.trajectory
             timed == SelectSeq(tr, LAMBDA p : p.time_delta_ms > 0)
             velocities == [ i \in 1..Len(timed) |-> timed[i].velocity ]
             moved == SelectSeq(tr, LAMBDA p : p.delta # 0)
             non_zero_deltas == [ i \in 1..Len(moved) |-> Abs(moved[i].delta) ]
             unique_values == { TruncCenti(tr[i].value) : i \in 1..Len(tr) }
             time_deltas == [ i \in 1..Len(timed) |-> timed[i].time_delta_ms ]
             pauses == SelectSeq(time_deltas, LAMBDA d : d >= 120)
             a1 == FlagIf(Len(velocities) > 0 /\ VarianceBelow(velocities, 30),
                          acc, "linear_velocity_pattern", 20)
             a2 == FlagIf(Len(non_zero_deltas) > 0
                          /\ VarianceBelow(non_zero_deltas, 2000)
                          /\ Len(non_zero_deltas) >= 4,
                          a1, "uniform_delta_pattern", 15)
             a3 == FlagIf(Cardinality(unique_values) < 4, a2, "low_slider_entropy", 15)
         IN  FlagIf(Len(time_deltas) > 0 /\ Len(pauses) = 0,
                    a3, "no_movement_pauses", 15)
    ELSE Flag(acc, "insufficient_trajectory_data", 30)

\* the behaviour rules of analyze_bot_risk
BehaviorRules(session, acc) ==
    IF IsSome(session.behavior)
    THEN LET b == Get(session.behavior)
             duration == b.total_duration_ms
             a1 == IF duration <= 0 THEN Flag(acc, "invalid_behavior_duration", 20)
                   ELSE IF duration < 300 THEN Flag(acc, "suspiciously_fast", 25)
                   ELSE IF duration < 700 THEN Flag(acc, "very_fast", 10)
                   ELSE IF duration > 45000 THEN Flag(acc, "suspiciously_slow", 10)
                   ELSE acc
             a2 == FlagIf(b.mouse_down_count < 1, a1, "missing_mousedown", 10)
             a3 == IF b.mouse_move_count < 3
                   THEN Flag(a2, "insufficient_mouse_movement", 20)
                   ELSE IF b.mouse_move_count < 8
                   THEN Flag(a2, "limited_mouse_movement", 10)
                   ELSE a2
         IN  FlagIf(b.event_count < 3, a3, "low_event_count", 10)
    ELSE Flag(acc, "missing_behavior_data", 25)

\* is_bot = score < 60
IsBot(score) == score < 60

\* a variant that returns the score as the rules leave it
analyze_bot_risk_unclamped(session) ==
    LET acc == BehaviorRules(session,
                   TrajectoryRules(session,
                       FingerprintRules(session, [ flags |-> <<>>, score |-> 100 ])))
    IN  [ is_bot |-> IsBot(acc.score),
          confidence_score |-> acc.score,
          flags |-> acc.flags,
          details |-> << >> ]

\* analyze_bot_risk(session)
analyze_bot_risk(session) ==
    LET acc == BehaviorRules(session,
                   TrajectoryRules(session,
                       FingerprintRules(session, [ flags |-> <<>>, score |-> 100 ])))
        score == Max(0, Min(100, acc.score))
    IN  [ is_bot |-> IsBot(score),
          confidence_score |-> score,
          flags |-> acc.flags,
          details |->
            [ fingerprint_present |-> IsSome(session.fingerprint),
              trajectory_points |-> Len(session.trajectory),
              total_duration_ms |-> IF IsSome(session.behavior)
                                    THEN Get(session.behavior).total_duration_ms
                                    ELSE 0,
              movement_events |-> IF IsSome(session.behavior)
                                  THEN Get(session.behavior).mouse_move_count
                                  ELSE 0 ] ]

\* a variant whose medium tier starts above 40
compute_pow_difficulty_open_tier(fingerprint, trajectory, behavior) ==
    LET result == analyze_bot_risk(CaptchaSession(0, fingerprint, trajectory, behavior))
        score == result.confidence_score
        tier == IF score >= 70 THEN <<"low", 15>>
                ELSE IF score > 40 THEN <<"medium", 19>>
                ELSE <<"high", 22>>
    IN  [ difficulty |-> tier[2],
          risk_level |-> tier[1],
          score |-> score,
          flags |-> result.flags ]

\* compute_pow_difficulty(fingerprint, trajectory, behavior)
compute_pow_difficulty(fingerprint, trajectory, behavior) ==
    LET result == analyze_bot_risk(CaptchaSession(0, fingerprint, trajectory, behavior))
        score == result.confidence_score
        tier == IF score >= 70 THEN <<"low", 15>>
                ELSE IF score >= 40 THEN <<"medium", 19>>
                ELSE <<"high", 22>>
    IN  [ difficulty |-> tier[2],
          risk_level |-> tier[1],
          score |-> score,
          flags |-> result.flags ]

----------------------------------------------------------------------------
(* Challenge generation (main.py) *)

\* the test _generate_keyframe_positions applies to a candidate list
\* [0] + interior + [100]: 3 to 5 sorted interior points of 1..99 and every
\* consecutive gap >= MIN_GAP
KeyframePositionsOk(positions) ==
    /\ Len(positions) \in 5..7
    /\ positions[1] = 0
    /\ positions[Len(positions)] = 100
    /\ \A i \in 2..(Len(positions) - 1) : positions[i] \in 1..99
    /\ \A i \in 1..(Len(positions) - 1) : positions[i + 1] - positions[i] >= MIN_GAP

\* a variant that keeps the start position among the candidates
NonStartKeepsZero(positions) == Range(positions)

\* non_start = [p for p in kf_positions if p != 0]
NonStart(positions) == { p \in Range(positions) : p # 0 }

\* str(uuid.uuid4()) and uuid.uuid4().hex: the n-th identifier drawn is fresh
FreshImageId(n) == "i-" \o ToString(n)
FreshVideoId(n) == "v" \o ToString(n)

ImageIds == { FreshImageId(n) : n \in 1..MaxImageSessions }
VideoIds == { FreshVideoId(n) : n \in 1..MaxVideoSessions }

\* random.shuffle(list): the list rearranged by the permutation drawn
Shuffle(list, perm) == [ i \in 1..Len(list) |-> list[perm[i]] ]

IsPermutation(perm, n) ==
    /\ Len(perm) = n
    /\ Range(perm) = 1..n

\* a variant whose step divides by the number of interior points
FallbackPositionsWideStep(num_interior) ==
    LET step == 100 \div num_interior
    IN  <<0>> \o [ i \in 1..num_interior |-> step * i ] \o <<100>>

\* the fallback of _generate_keyframe_positions: evenly spaced positions
FallbackPositions(num_interior) ==
    LET step == 100 \div (num_interior + 1)
    IN  <<0>> \o [ i \in 1..num_interior |-> step * i ] \o <<100>>

\* _generate_keyframe_positions(): num_interior is random.randint(3, 5) and
\* interiors holds the sorted samples the retry loop draws, the i-th retry
\* drawing interiors[i] and every retry past the last one drawing the last
\* one again; the first list that passes the gap test is returned, and the
\* fallback when none of the RETRIES draws passes
_generate_keyframe_positions(num_interior, interiors) ==
    LET Candidate(i) == <<0>> \o interiors[Min(i, Len(interiors))] \o <<100>>
        passing == { i \in 1..RETRIES : KeyframePositionsOk(Candidate(i)) }
    IN  IF passing # {}
        THEN Candidate(CHOOSE i \in passing : \A j \in passing : i <= j)
        ELSE FallbackPositions(num_interior)

\* the grid cells in the order of the loops `for row ... for col ...`
Cells == [ i \in 1..(GRID_SIZE * GRID_SIZE) |->
             [ row |-> (i - 1) \div GRID_SIZE, col |-> (i - 1) % GRID_SIZE ] ]

HEdges == (1..(GRID_SIZE - 1)) \X (0..(GRID_SIZE - 1))
VEdges == (0..(GRID_SIZE - 1)) \X (1..(GRID_SIZE - 1))

\* _generate_edge_grid(): one direction, random.choice([-1, 1]), per
\* internal edge.  A horizontal edge runs left to right, so its bulb points
\* down for +1 and up for -1; a vertical edge runs top to bottom, so its bulb
\* points left for +1 and right for -1 (_generate_edge_points: the normal is
\* (-ty, tx) * direction).  The bulb reaches TAB_REACH pixels.
EdgeGrids == [ h : [ HEdges -> {-1, 1} ], v : [ VEdges -> {-1, 1} ] ]

\* Points are pairs <<x, y>> in 1/BEZIER_DEN pixel, the denominator of a
\* cubic Bezier evaluated at t = i / BEZIER_STEPS.
BEZIER_STEPS == 30
BEZIER_DEN == BEZIER_STEPS * BEZIER_STEPS * BEZIER_STEPS

Reverse(list) == [ i \in 1..Len(list) |-> list[Len(list) + 1 - i] ]

\* _cubic_bezier(p0, p1, p2, p3, steps = 30): steps + 1 points; the control
\* points are given in whole pixels
_cubic_bezier(p0, p1, p2, p3) ==
    [ k \in 1..(BEZIER_STEPS + 1) |->
        LET i == k - 1
            u == BEZIER_STEPS - i
            B(a, b, c, d) == u * u * u * a + 3 * u * u * i * b
                                + 3 * u * i * i * c + i * i * i * d
        IN  <<B(p0[1], p1[1], p2[1], p3[1]), B(p0[2], p1[2], p2[2], p3[2])>> ]

\* _generate_edge_points(start, end, direction) for an edge of the grid
\* (length PIECE_SIZE, along one axis): local_to_global(u, v) with u and v in
\* hundredths is start + u * (dx, dy) + v * length * (-ty, tx) * direction
_generate_edge_points(start, end, direction) ==
    LET dx == end[1] - start[1]
        dy == end[2] - start[2]
        Pixel(u, v) == <<start[1] + (u * dx - v * dy * direction) \div 100,
                         start[2] + (u * dy + v * dx * direction) \div 100>>
        Fine(q) == <<q[1] * BEZIER_DEN, q[2] * BEZIER_DEN>>
    IN  << Fine(Pixel(0, 0)), Fine(Pixel(38, 0)) >>
        \o Tail(_cubic_bezier(Pixel(38, 0), Pixel(43, 6), Pixel(32, 10), Pixel(32, 16)))
        \o Tail(_cubic_bezier(Pixel(32, 16), Pixel(32, 28), Pixel(68, 28), Pixel(68, 16)))
        \o Tail(_cubic_bezier(Pixel(68, 16), Pixel(68, 10), Pixel(57, 6), Pixel(62, 0)))
        \o << Fine(Pixel(100, 0)) >>

\* the point lists _generate_edge_grid stores for the directions of `edges`:
\* a horizontal edge from left to right, a vertical edge from top to bottom
EdgePoints(edges) ==
    [ h |-> [ e \in HEdges |->
                _generate_edge_points(<<e[2] * PIECE_SIZE, e[1] * PIECE_SIZE>>,
                                      <<e[2] * PIECE_SIZE + PIECE_SIZE, e[1] * PIECE_SIZE>>,
                                      edges.h[e]) ],
      v |-> [ e \in VEdges |->
                _generate_edge_points(<<e[2] * PIECE_SIZE, e[1] * PIECE_SIZE>>,
                                      <<e[2] * PIECE_SIZE, e[1] * PIECE_SIZE + PIECE_SIZE>>,
                                      edges.v[e]) ] ]

Corner(x, y) == <<x * BEZIER_DEN, y * BEZIER_DEN>>

\* The four sides of the piece at (row, col) as _build_piece_polygon lays
\* them down, clockwise; `points` is EdgePoints of the grid.
TopSide(row, col, points) ==
    IF row = 0
    THEN << Corner(col * PIECE_SIZE, row * PIECE_SIZE),
            Corner(col * PIECE_SIZE + PIECE_SIZE, row * PIECE_SIZE) >>
    ELSE points.h[<<row, col>>]

RightSide(row, col, points) ==
    IF col = GRID_SIZE - 1
    THEN << Corner(col * PIECE_SIZE + PIECE_SIZE, row * PIECE_SIZE),
            Corner(col * PIECE_SIZE + PIECE_SIZE, row * PIECE_SIZE + PIECE_SIZE) >>
    ELSE points.v[<<row, col + 1>>]

\* a variant that lays the bottom edge down as stored
BottomSideAsStored(row, col, points) ==
    IF row = GRID_SIZE - 1
    THEN << Corner(col * PIECE_SIZE + PIECE_SIZE, row * PIECE_SIZE + PIECE_SIZE),
            Corner(col * PIECE_SIZE, row * PIECE_SIZE + PIECE_SIZE) >>
    ELSE points.h[<<row + 1, col>>]

BottomSide(row, col, points) ==
    IF row = GRID_SIZE - 1
    THEN << Corner(col * PIECE_SIZE + PIECE_SIZE, row * PIECE_SIZE + PIECE_SIZE),
            Corner(col * PIECE_SIZE, row * PIECE_SIZE + PIECE_SIZE) >>
    ELSE Reverse(points.h[<<row + 1, col>>])

LeftSide(row, col, points) ==
    IF col = 0
    THEN << Corner(col * PIECE_SIZE, row * PIECE_SIZE + PIECE_SIZE),
            Corner(col * PIECE_SIZE, row * PIECE_SIZE) >>
    ELSE Reverse(points.v[<<row, col>>])

\* _build_piece_polygon(row, col, edges)
_build_piece_polygon(row, col, points) ==
    TopSide(row, col, points) \o RightSide(row, col, points)
        \o BottomSide(row, col, points) \o LeftSide(row, col, points)

\* math.floor and math.ceil of a coordinate, in pixels
FloorPixel(q) == IF q >= 0 THEN q \div BEZIER_DEN ELSE -((-q + BEZIER_DEN - 1) \div BEZIER_DEN)
CeilPixel(q) == -FloorPixel(-q)

\* the bounding box of _slice_image (l.429-435) taken from the polygon
PolygonBox(polygon) ==
    LET Least(S) == CHOOSE a \in S : \A b \in S : a <= b
        Most(S) == CHOOSE a \in S : \A b \in S : a >= b
        Floors(k) == { FloorPixel(polygon[i][k]) : i \in 1..Len(polygon) }
        Ceils(k) == { CeilPixel(polygon[i][k]) : i \in 1..Len(polygon) }
    IN  [ bbox_x0 |-> Max(Least(Floors(1)), 0),
          bbox_y0 |-> Max(Least(Floors(2)), 0),
          bbox_x1 |-> Min(Most(Ceils(1)) + 1, CAPTCHA_SIZE),
          bbox_y1 |-> Min(Most(Ceils(2)) + 1, CAPTCHA_SIZE) ]

\* _build_piece_polygon and the bounding box of _slice_image (l.429-438):
\* the box of the cell, pushed out by TAB_REACH on each side whose bulb
\* points out of the piece, floored / ceilinged + 1 and clamped to the canvas
BoundingBox(row, col, edges) ==
    LET x0 == col * PIECE_SIZE
        y0 == row * PIECE_SIZE
        top == row > 0 /\ edges.h[<<row, col>>] = -1
        right == col < GRID_SIZE - 1 /\ edges.v[<<row, col + 1>>] = -1
        bottom == row < GRID_SIZE - 1 /\ edges.h[<<row + 1, col>>] = 1
        left == col > 0 /\ edges.v[<<row, col>>] = 1
        Reach(out) == IF out THEN TAB_REACH ELSE 0
    IN  [ bbox_x0 |-> Max(x0 - Reach(left), 0),
          bbox_y0 |-> Max(y0 - Reach(top), 0),
          bbox_x1 |-> Min(x0 + PIECE_SIZE + Reach(right) + 1, CAPTCHA_SIZE),
          bbox_y1 |-> Min(y0 + PIECE_SIZE + Reach(bottom) + 1, CAPTCHA_SIZE) ]

\* uuid.uuid4().hex: the n-th piece identifier drawn is fresh
FreshPieceId(n) == "p" \o ToString(n)

\* _slice_image(img): the nine pieces (piece_id, image, offset), made cell by
\* cell and then shuffled by `order`; n identifiers were drawn before.  The
\* image is the region of the source picture the mask cuts out, a term over
\* the cell and its box.
_slice_image(edges, order, n) ==
    LET Piece(i) ==
            LET box == BoundingBox(Cells[i].row, Cells[i].col, edges)
            IN  [ piece_id |-> FreshPieceId(n + i),
                  image |-> [ region |-> <<Cells[i].row, Cells[i].col>>,
                              width |-> box.bbox_x1 - box.bbox_x0,
                              height |-> box.bbox_y1 - box.bbox_y0 ],
                  offset |-> <<box.bbox_x0, box.bbox_y0>> ]
    IN  Shuffle([ i \in 1..(GRID_SIZE * GRID_SIZE) |-> Piece(i) ], order)

\* a variant whose slots all lie on the diagonal of the grid
_random_grid_positions_diagonal(perm) ==
    Shuffle([ i \in 1..(GRID_SIZE * GRID_SIZE) |->
                <<Cells[i].col * PIECE_SIZE, Cells[i].col * PIECE_SIZE>> ], perm)

\* _random_grid_positions(): the grid slots (x, y), shuffled by `perm`
_random_grid_positions(perm) ==
    Shuffle([ i \in 1..(GRID_SIZE * GRID_SIZE) |->
                <<Cells[i].col * PIECE_SIZE, Cells[i].row * PIECE_SIZE>> ], perm)

\* The random draws of one run of generate_captcha(): the edge directions,
\* the shuffle of the pieces, num_interior and the samples of the retry
\* loop, the solved position, and per keyframe the permutation
\* _random_grid_positions draws when that keyframe is a shuffled one.
Draws(edges, order, num_interior, interiors, solved_position, shuffles) ==
    [ edges |-> edges, order |-> order, num_interior |-> num_interior,
      interiors |-> interiors, solved_position |-> solved_position,
      shuffles |-> shuffles ]

NoDraws == Draws(<< >>, << >>, 0, << >>, 0, << >>)

\* the solved keyframe of generate_captcha (l.544-547): every piece at its
\* offset
SolvedKeyframe(pieces) ==
    [ i \in 1..Len(pieces) |->
        [ piece_id |-> pieces[i].piece_id,
          x |-> pieces[i].offset[1], y |-> pieces[i].offset[2] ] ]

\* a shuffled keyframe (l.550-554): zip(pieces, shuffled_positions)
ShuffledKeyframe(pieces, perm) ==
    LET shuffled_positions == _random_grid_positions(perm)
    IN  [ i \in 1..Len(pieces) |->
            [ piece_id |-> pieces[i].piece_id,
              x |-> shuffled_positions[i][1], y |-> shuffled_positions[i][2] ] ]

\* generate_captcha() for the draws d, with n pieces and m sessions made
\* before: the session it stores and the payload it returns
generate_captcha(d, n, m) ==
    LET pieces == _slice_image(d.edges, d.order, n)
        kf_positions == _generate_keyframe_positions(d.num_interior, d.interiors)
        keyframes ==
            [ k \in { ToString(kf_positions[j]) : j \in 1..Len(kf_positions) } |->
                LET j == CHOOSE j \in 1..Len(kf_positions) :
                             ToString(kf_positions[j]) = k
                IN  IF kf_positions[j] = d.solved_position
                    THEN SolvedKeyframe(pieces)
                    ELSE ShuffledKeyframe(pieces, d.shuffles[j]) ]
        pieces_payload ==
            [ pid \in { pieces[i].piece_id : i \in 1..Len(pieces) } |->
                LET i == CHOOSE i \in 1..Len(pieces) : pieces[i].piece_id = pid
                IN  [ data |-> pieces[i].image.region,
                      w |-> pieces[i].image.width,
                      h |-> pieces[i].image.height,
                      ox |-> pieces[i].offset[1],
                      oy |-> pieces[i].offset[2] ] ]
        captcha_id == FreshImageId(m + 1)
    IN  [ captcha_id |-> captcha_id,
          session |-> CaptchaSession(d.solved_position, Nothing, <<>>, Nothing),
          payload |-> [ captcha_id |-> captcha_id,
                        pieces |-> pieces_payload,
                        keyframes |-> keyframes ] ]

\* The draws the generator is run with.  Sockets: every bulb points right or
\* down, so that every offset is the corner of the piece's cell; Tabs: every
\* bulb points left or up; Mixed: alternating.
Sockets == [ h |-> [ e \in HEdges |-> 1 ], v |-> [ e \in VEdges |-> -1 ] ]
Tabs == [ h |-> [ e \in HEdges |-> -1 ], v |-> [ e \in VEdges |-> 1 ] ]
Mixed == [ h |-> [ e \in HEdges |-> IF (e[1] + e[2]) % 2 = 0 THEN 1 ELSE -1 ],
           v |-> [ e \in VEdges |-> IF (e[1] + e[2]) % 2 = 0 THEN 1 ELSE -1 ] ]

Straight == <<1, 2, 3, 4, 5, 6, 7, 8, 9>>
Reversed == <<9, 8, 7, 6, 5, 4, 3, 2, 1>>
Rotated == <<2, 3, 4, 5, 6, 7, 8, 9, 1>>

\* samples of the retry loop: one that passes at once, one that passes on
\* the second draw, and draws that never pass (gaps below MIN_GAP), for each
\* num_interior
InteriorSamples(num_interior) ==
    CASE num_interior = 3 -> { << <<20, 42, 60>> >>,
                               << <<1, 2, 3>>, <<10, 50, 90>> >>,
                               << <<1, 2, 3>> >> }
      [] num_interior = 4 -> { << <<8, 30, 42, 92>> >>,
                               << <<1, 2, 3, 4>> >> }
      [] num_interior = 5 -> { << <<10, 20, 42, 60, 80>> >>,
                               << <<95, 96, 97, 98, 99>> >> }

\* the permutations drawn for the shuffled keyframes, by keyframe index
ShuffleSamples ==
    { [ j \in 1..7 |-> Straight ],
      [ j \in 1..7 |-> IF j % 2 = 0 THEN Reversed ELSE Rotated ],
      [ j \in 1..7 |-> IF j = 2 THEN Straight ELSE Reversed ] }

\* every combination of the samples
AllDraws ==
    UNION { { Draws(edges, order, num_interior, interiors, solved_position, shuffles) :
                edges \in { Sockets, Tabs, Mixed }, order \in { Straight, Rotated },
                interiors \in InteriorSamples(num_interior),
                solved_position \in 0..100, shuffles \in ShuffleSamples } :
            num_interior \in 3..5 }

\* the draws of the cut: every choice of the horizontal edges with two
\* choices of the vertical ones, the other draws fixed
CutDraws ==
    { Draws([ h |-> h, v |-> v ], Straight, 3, << <<20, 42, 60>> >>, 42,
            [ j \in 1..7 |-> Reversed ]) :
        h \in [ HEdges -> {-1, 1} ], v \in { Tabs.v, Mixed.v } }

\* the draws of the puzzle the coordinator is exercised with
SolvedSamples == { 42, 100 }
PlainDraws ==
    { Draws(Mixed, Rotated, 3, << <<20, 42, 60>> >>, solved_position,
            [ j \in 1..7 |-> Reversed ]) : solved_position \in SolvedSamples }

\* random.uniform(0.4, 0.8), in 1/UNIT
TargetSamples == { 400250, 600500 }

----------------------------------------------------------------------------
(* Video compositor (main.py) *)

\* The compositor computes in doubles.  A float of the model is a binary
\* floating-point number with FLOAT_BITS significant bits, held as a count
\* of 1/FINE; every operation rounds its exact result to the nearest float,
\* ties to even, as IEEE 754 arithmetic does with 53 bits.
FLOAT_BITS == 6
FINE == 2 ^ FLOAT_BITS

\* the integer nearest to a / m, ties to even (a >= 0, m > 0)
NearestEven(a, m) ==
    LET f == a \div m
        r == a % m
    IN  IF 2 * r < m THEN f
        ELSE IF 2 * r > m THEN f + 1
        ELSE IF f % 2 = 0 THEN f ELSE f + 1

\* the spacing of the floats around a / d, in 1/FINE (a >= 0, d > 0)
Quantum(a, d) ==
    LET w == a \div d
    IN  IF w < 2 ^ FLOAT_BITS THEN 1
        ELSE LET k == CHOOSE k \in FLOAT_BITS..24 : 2 ^ k <= w /\ w < 2 ^ (k + 1)
             IN  2 ^ (k - FLOAT_BITS + 1)

\* Each operation below binds its operands once, { e : x \in {operand} },
\* so that an operand is computed once however often it is used.

\* the float nearest to the rational n / d counted in 1/FINE (d > 0)
FRound(n, d) ==
    CHOOSE r \in { LET a == Abs(x)
                       q == Quantum(a, y)
                   IN  IF x < 0 THEN -(q * NearestEven(a, y * q))
                       ELSE q * NearestEven(a, y * q) : x \in {n}, y \in {d} } : TRUE

IsFloat(x) == FRound(x, 1) = x

\* float(i), x + y, x - y, x * y and int(x)
FromInt(i) == FRound(i * FINE, 1)
FAdd(x, y) == FRound(x + y, 1)
FSub(x, y) == FRound(x - y, 1)
FMul(x, y) == FRound(x * y, FINE)
Trunc(x) ==
    CHOOSE r \in { IF a >= 0 THEN a \div FINE ELSE -((-a) \div FINE) : a \in {x} } : TRUE

\* x % m of Python floats for m > 0: the exact fmod, which has the sign of
\* x, moved up by m when it is negative
FMod(x, m) ==
    CHOOSE r \in { IF a >= 0 THEN a % b
                   ELSE IF (-a) % b = 0 THEN 0
                   ELSE FAdd(-((-a) % b), b) : a \in {x}, b \in {m} } : TRUE

\* a variant of _bounce_pos that wraps around without reflecting
_bounce_pos_unreflected(value, minimum, maximum) ==
    LET span == maximum - minimum
    IN  IF span <= 0 THEN minimum
        ELSE Trunc(FAdd(FromInt(minimum),
                        FMod(FSub(value, FromInt(minimum)), FromInt(2 * span))))

\* _bounce_pos(value: float, minimum: int, maximum: int) -> int
_bounce_pos(value, minimum, maximum) ==
    LET span == maximum - minimum
    IN  IF span <= 0 THEN minimum
        ELSE CHOOSE r \in
               { Trunc(FAdd(FromInt(minimum),
                            IF normalized > FromInt(span)
                            THEN FSub(FromInt(2 * span), normalized)
                            ELSE normalized)) :
                   normalized \in { FMod(FSub(value, FromInt(minimum)),
                                         FromInt(2 * span)) } } : TRUE

\* roi_size of generate_video_captcha (l.792-793) for a frame of
\* video_width x video_height
RoiSize(video_width, video_height) ==
    Min(Min(Max(24, (Min(video_width, video_height) * 45) \div 100), video_width),
        video_height)

Roi(true_x, true_y, start_x, start_y) ==
    [ true_x |-> true_x, true_y |-> true_y, start_x |-> start_x, start_y |-> start_y ]

\* the overlay origin (cx, cy) of one frame of _generate_video_stream
\* (l.866-875): slider_val and secret_target in 1/UNIT, osc the value of
\* math.sin, a float in [-1, 1], max_x and max_y the shape of the frame
OverlayOrigin(roi, roi_size, slider_val, secret_target, osc, max_x, max_y) ==
    CHOOSE origin \in
      { LET amp_x == FMul(FromInt(max_x), FRound(15 * FINE, 100))
            amp_y == FMul(FromInt(max_y), FRound(15 * FINE, 100))
        IN  [ raw_cx |-> FAdd(FAdd(FromInt(roi.start_x),
                                   FMul(FromInt(roi.true_x - roi.start_x), t)),
                              FMul(amp_x, osc)),
              raw_cy |-> FAdd(FAdd(FromInt(roi.start_y),
                                   FMul(FromInt(roi.true_y - roi.start_y), t)),
                              FMul(amp_y, osc)),
              cx |-> _bounce_pos(FAdd(FAdd(FromInt(roi.start_x),
                                           FMul(FromInt(roi.true_x - roi.start_x), t)),
                                      FMul(amp_x, osc)),
                                 0, max_x - roi_size),
              cy |-> _bounce_pos(FAdd(FAdd(FromInt(roi.start_y),
                                           FMul(FromInt(roi.true_y - roi.start_y), t)),
                                      FMul(amp_y, osc)),
                                 0, max_y - roi_size) ] :
          t \in { IF secret_target > 0 THEN FRound(slider_val * FINE, secret_target)
                  ELSE 0 } } : TRUE

\* the shape of the frames of the video asset (l.784-785); the asset is not
\* part of the sources, a small frame stands for it
video_width == 40
video_height == 36

\* the ROI of the challenge the coordinator is exercised with
PlainRoi == Roi(16, 12, 0, 0)

\* Inputs of the compositor: the floats of magnitude up to MaxValue, the
\* integer bounds, the frame shapes (one whose height equals roi_size), the
\* corners an ROI can be drawn at, and values of math.sin.
FloatSamples == { x \in (-MaxValue * FINE)..(MaxValue * FINE) : IsFloat(x) }
MinimumSamples == -2..1
MaximumSamples == -2..4
FrameShapes == { <<40, 36>>, <<32, 24>> }
RoiSamples(width, height) ==
    LET roi_size == RoiSize(width, height)
    IN  { Roi(true_x, true_y, start_x, start_y) :
            true_x \in { 0, width - roi_size },
            true_y \in { 0, height - roi_size },
            start_x \in { 0, (width - roi_size) \div 2 },
            start_y \in { 0, height - roi_size } }
OscSamples == { -FINE, -(FINE \div 2), 0, (3 * FINE) \div 8, FINE }
SliderSamples == { 0, 100, 400, 600, 1000, 1500 }

----------------------------------------------------------------------------
(* Requests *)

\* Telemetry a client sends: fingerprint, trajectory and behaviour.
Point(value, delta, velocity, time_delta_ms) ==
    [ value |-> value, delta |-> delta, velocity |-> velocity,
      time_delta_ms |-> time_delta_ms ]

HumanFingerprint ==
    [ user_agent_len |-> 110, screen_resolution |-> Some(<<1920, 1080>>),
      webdriver |-> FALSE, timezone_name |-> TRUE, canvas_fingerprint |-> TRUE ]

HumanTrajectory ==
    << Point(0, 0, 0, 0), Point(1050, 1050, 5, 16), Point(2200, 1150, 20, 130),
       Point(3320, 1120, 12, 16), Point(4200, 880, 30, 16) >>

HumanBehavior ==
    [ total_duration_ms |-> 2500, event_count |-> 18,
      mouse_down_count |-> 1, mouse_move_count |-> 15 ]

HastyBehavior ==
    [ total_duration_ms |-> 2500, event_count |-> 2,
      mouse_down_count |-> 0, mouse_move_count |-> 2 ]

HumanTelemetry ==
    [ fingerprint |-> Some(HumanFingerprint), trajectory |-> HumanTrajectory,
      behavior |-> Some(HumanBehavior) ]

HastyTelemetry ==
    [ fingerprint |-> Some(HumanFingerprint), trajectory |-> HumanTrajectory,
      behavior |-> Some(HastyBehavior) ]

NoTelemetry ==
    [ fingerprint |-> Nothing, trajectory |-> <<>>, behavior |-> Nothing ]

Telemetries == { HumanTelemetry, HastyTelemetry, NoTelemetry }

\* Inputs of the risk analyzer: fingerprints, trajectories and behaviours
\* that between them trigger every rule
BotFingerprint ==
    [ user_agent_len |-> 5, screen_resolution |-> Nothing,
      webdriver |-> TRUE, timezone_name |-> FALSE, canvas_fingerprint |-> FALSE ]

HeadlessFingerprint ==
    [ user_agent_len |-> 110, screen_resolution |-> Some(<<0, 0>>),
      webdriver |-> TRUE, timezone_name |-> TRUE, canvas_fingerprint |-> TRUE ]

NoCanvasFingerprint ==
    [ HumanFingerprint EXCEPT !.canvas_fingerprint = FALSE ]

Fingerprints ==
    { Nothing, Some(HumanFingerprint), Some(BotFingerprint),
      Some(HeadlessFingerprint), Some(NoCanvasFingerprint) }

\* evenly spaced points at one speed, without a pause
LinearTrajectory ==
    [ i \in 1..6 |-> Point(1000 * i, 1000, 10, 16) ]

\* four points that never leave slider value 0, one clock reading negative
StuckTrajectory ==
    << Point(10, 10, 10, -3), Point(20, 10, 10, 16), Point(30, 10, 10, 16),
       Point(40, 10, 10, 16) >>

ShortTrajectory == << Point(0, 0, 0, 0), Point(4200, 4200, 30, 130) >>

Trajectories ==
    { <<>>, ShortTrajectory, HumanTrajectory, LinearTrajectory, StuckTrajectory }

Behavior(total_duration_ms, event_count, mouse_down_count, mouse_move_count) ==
    [ total_duration_ms |-> total_duration_ms, event_count |-> event_count,
      mouse_down_count |-> mouse_down_count, mouse_move_count |-> mouse_move_count ]

Behaviors ==
    { Nothing, Some(HumanBehavior), Some(HastyBehavior),
      Some(Behavior(-5, 0, 0, 0)), Some(Behavior(150, 18, 1, 0)),
      Some(Behavior(500, 18, 1, 15)), Some(Behavior(50000, 18, 1, 15)),
      Some(Behavior(2500, 18, 1, 5)), Some(Behavior(299, 2, 0, 7)) }

\* twenty points of a hand-made drag: steps and speeds that vary, one pause
\* of 130 ms
RealisticTrajectory ==
    [ i \in 1..20 |->
        IF i = 1 THEN Point(0, 0, 0, 0)
        ELSE Point(220 * (i - 1) + << 0, 90, -70, 20 >>[(i % 4) + 1],
                   << 150, 310, 220, 200 >>[(i % 4) + 1],
                   << 5, 20, 12, 30 >>[(i % 4) + 1],
                   IF i = 10 THEN 130 ELSE 16) ]

\* twenty points with speeds that vary and one pause, every step the same
SteadyStepTrajectory ==
    [ i \in 1..20 |->
        IF i = 1 THEN Point(0, 0, 0, 0)
        ELSE Point(220 * (i - 1), 220, << 5, 20, 12, 30 >>[(i % 4) + 1],
                   IF i = 10 THEN 130 ELSE 16) ]

HappyTelemetries ==
    { [ fingerprint |-> fingerprint, trajectory |-> trajectory,
        behavior |-> Some(HumanBehavior) ] :
        fingerprint \in { Some(HumanFingerprint), Nothing, Some(HeadlessFingerprint) },
        trajectory \in { RealisticTrajectory, SteadyStepTrajectory } }

RiskTelemetries ==
    { [ fingerprint |-> fingerprint, trajectory |-> trajectory,
        behavior |-> behavior ] :
        fingerprint \in Fingerprints, trajectory \in Trajectories,
        behavior \in Behaviors }

Nonces == 0..MaxNonce

PowFields == { "pow_salt", "pow_nonce", "pow_difficulty", "pow_timestamp", "pow_signature" }

\* the decimal digits of d followed by those of n, as a number
GlueDigits(d, n) == IF n < 10 THEN d * 10 + n
                    ELSE IF n < 100 THEN d * 100 + n
                    ELSE IF n < 1000 THEN d * 1000 + n
                    ELSE d * 10000 + n

\* What a client can make of an issued challenge ch without the key: the
\* challenge itself, another salt, a lower difficulty, a refreshed timestamp,
\* digits moved across a field boundary of the payload, and a salt that holds
\* a separator.
Variants(ch, t) ==
    { [ salt |-> ch.salt, difficulty |-> ch.difficulty, timestamp |-> ch.timestamp ],
      [ salt |-> "ff", difficulty |-> ch.difficulty, timestamp |-> ch.timestamp ],
      [ salt |-> ch.salt, difficulty |-> 1, timestamp |-> ch.timestamp ],
      [ salt |-> ch.salt, difficulty |-> ch.difficulty, timestamp |-> IntTime(t) ],
      [ salt |-> ch.salt \o ToString(ch.difficulty \div 10),
        difficulty |-> ch.difficulty % 10, timestamp |-> ch.timestamp ],
      [ salt |-> ch.salt, difficulty |-> ch.difficulty \div 10,
        timestamp |-> GlueDigits(ch.difficulty % 10, ch.timestamp) ],
      [ salt |-> ch.salt \o "." \o ToString(ch.difficulty),
        difficulty |-> ch.timestamp, timestamp |-> ch.timestamp ] }

\* The signatures a client can attach to the fields v: one the server issued,
\* or an HMAC under a key of its own.
Signatures(v) ==
    { ch.signature : ch \in issued }
        \cup { HmacSha256("guess", Payload(v.salt, v.difficulty, v.timestamp)) }

Body(captcha_id, slider_value, mode, v, signature, nonce, telemetry, missing) ==
    [ captcha_id |-> captcha_id, slider_value |-> slider_value, mode |-> mode,
      pow_salt |-> v.salt, pow_difficulty |-> v.difficulty,
      pow_timestamp |-> v.timestamp, pow_signature |-> signature,
      pow_nonce |-> nonce, telemetry |-> telemetry, missing |-> missing ]

NoBody ==
    Body("", 0, "image", [ salt |-> "", difficulty |-> 0, timestamp |-> 0 ],
         HmacSha256("", ""), 0, NoTelemetry, {})

\* the sets of fields a request may leave out
MissingSets ==
    { {"captcha_id"}, {"slider_value"}, {"pow_nonce"}, {"pow_signature"},
      {"captcha_id", "pow_salt"}, PowFields }

----------------------------------------------------------------------------
(* Verification coordinator (main.py verify_captcha) *)

ErrMissingCaptcha == "Missing captcha_id or slider_value."
ErrMissingPow == "Missing PoW fields."
ErrSession == "Invalid or expired captcha_id."
NotCalled == "not called"

Failure(error) == [ success |-> FALSE, error |-> error, analysis |-> Nothing ]
Outcome(success, analysis) ==
    [ success |-> success, error |-> "", analysis |-> Some(analysis) ]

\* max(0.0, min(1.0, float(slider_value) / 1000.0)), in 1/UNIT
NormalizeSlider(slider_value) ==
    Max(0, Min(UNIT, slider_value * (UNIT \div SLIDER_MAX)))

\* the puzzle test with a strict bound
PuzzleSolvedStrict(slider_value, solved_value) ==
    Abs(slider_value - solved_value) < TOLERANCE

\* abs(slider_value - session.solved_value) <= TOLERANCE
PuzzleSolved(slider_value, solved_value) ==
    Abs(slider_value - solved_value) <= TOLERANCE

\* abs(target - submitted_val) <= 0.03
SliderOk(target, submitted_val) ==
    Abs(target - submitted_val) <= VIDEO_TOLERANCE

\* Function f without the key k (dict.pop, del)
Without(f, k) == [ x \in DOMAIN f \ {k} |-> f[x] ]

\* the video branch with the session left in the store after a success
VerifyVideoKeep(body, fingerprint, trajectory, behavior, videos) ==
    IF body.captcha_id \notin DOMAIN videos
    THEN [ resp |-> Failure(ErrSession), videos |-> videos ]
    ELSE LET challenge == videos[body.captcha_id]
             submitted_val == NormalizeSlider(body.slider_value)
             target == challenge.secret_target
             bot_analysis ==
                 analyze_bot_risk(CaptchaSession(target \div (UNIT \div SLIDER_MAX),
                                                 fingerprint, trajectory, behavior))
             success == SliderOk(target, submitted_val) /\ ~bot_analysis.is_bot
         IN  [ resp |-> Outcome(success, bot_analysis), videos |-> videos ]

\* the video branch with the session taken by pop
VerifyVideoPop(body, fingerprint, trajectory, behavior, videos) ==
    IF body.captcha_id \notin DOMAIN videos
    THEN [ resp |-> Failure(ErrSession), videos |-> videos ]
    ELSE LET challenge == videos[body.captcha_id]
             submitted_val == NormalizeSlider(body.slider_value)
             target == challenge.secret_target
             bot_analysis ==
                 analyze_bot_risk(CaptchaSession(target \div (UNIT \div SLIDER_MAX),
                                                 fingerprint, trajectory, behavior))
             success == SliderOk(target, submitted_val) /\ ~bot_analysis.is_bot
         IN  [ resp |-> Outcome(success, bot_analysis),
               videos |-> Without(videos, body.captcha_id) ]

\* the video branch of verify_captcha, after the PoW gate
VerifyVideo(body, fingerprint, trajectory, behavior, videos) ==
    IF body.captcha_id \notin DOMAIN videos
    THEN [ resp |-> Failure(ErrSession), videos |-> videos ]
    ELSE LET challenge == videos[body.captcha_id]
             submitted_val == NormalizeSlider(body.slider_value)
             target == challenge.secret_target
             bot_analysis ==
                 analyze_bot_risk(CaptchaSession(target \div (UNIT \div SLIDER_MAX),
                                                 fingerprint, trajectory, behavior))
             slider_ok == SliderOk(target, submitted_val)
             success == slider_ok /\ ~bot_analysis.is_bot
         IN  [ resp |-> Outcome(success, bot_analysis),
               videos |-> IF success THEN Without(videos, body.captcha_id)
                          ELSE videos ]

\* the image branch with the session read by get and deleted on success only
VerifyImagePeek(body, fingerprint, trajectory, behavior, sessions) ==
    IF body.captcha_id \notin DOMAIN sessions
    THEN [ resp |-> Failure(ErrSession), sessions |-> sessions ]
    ELSE LET peeked == sessions[body.captcha_id]
             puzzle_solved == PuzzleSolved(body.slider_value, peeked.solved_value)
             bot_analysis ==
                 analyze_bot_risk(CaptchaSession(peeked.solved_value, fingerprint,
                                                 trajectory, behavior))
             success == puzzle_solved /\ ~bot_analysis.is_bot
         IN  [ resp |-> Outcome(success, bot_analysis),
               sessions |-> IF success THEN Without(sessions, body.captcha_id)
                            ELSE sessions ]

\* the image branch of verify_captcha, after the PoW gate
VerifyImage(body, fingerprint, trajectory, behavior, sessions) ==
    IF body.captcha_id \notin DOMAIN sessions
    THEN [ resp |-> Failure(ErrSession), sessions |-> sessions ]
    ELSE LET popped == sessions[body.captcha_id]
             session ==
                 CaptchaSession(popped.solved_value, fingerprint,
                                IF Len(trajectory) > 0 THEN trajectory
                                ELSE popped.trajectory,
                                IF IsSome(behavior) THEN behavior
                                ELSE popped.behavior)
             puzzle_solved == PuzzleSolved(body.slider_value, session.solved_value)
             bot_analysis == analyze_bot_risk(session)
             success == puzzle_solved /\ ~bot_analysis.is_bot
         IN  [ resp |-> Outcome(success, bot_analysis),
               sessions |-> Without(sessions, body.captcha_id) ]

\* verify_captcha(body) with the clock readings t1, t2, t3 of verify_pow:
\* the response and the stores it leaves
verify_captcha(body, t1, t2, t3, sessions, videos, nonces) ==
    LET fingerprint == body.telemetry.fingerprint
        parsed_trajectory == parse_trajectory(body.telemetry.trajectory)
        parsed_behavior == parse_behavior(body.telemetry.behavior)
        unchanged == [ sessions |-> sessions, videos |-> videos, nonces |-> nonces,
                       pow |-> NotCalled ]
    IN  IF "captcha_id" \in body.missing \/ "slider_value" \in body.missing
        THEN unchanged @@ [ resp |-> Failure(ErrMissingCaptcha) ]
        ELSE IF \E k \in PowFields : k \in body.missing
        THEN unchanged @@ [ resp |-> Failure(ErrMissingPow) ]
        ELSE LET pow == verify_pow(body.pow_salt, body.pow_difficulty,
                                   body.pow_timestamp, body.pow_signature,
                                   body.pow_nonce, t1, t2, t3, nonces)
             IN  IF pow.result # None
                 THEN [ resp |-> Failure(pow.result), sessions |-> sessions,
                        videos |-> videos, nonces |-> pow.nonces,
                        pow |-> pow.result ]
                 ELSE IF body.mode = "video"
                 THEN LET v == VerifyVideo(body, fingerprint, parsed_trajectory,
                                           parsed_behavior, videos)
                      IN  [ resp |-> v.resp, sessions |-> sessions,
                            videos |-> v.videos, nonces |-> pow.nonces,
                            pow |-> None ]
                 ELSE LET m == VerifyImage(body, fingerprint, parsed_trajectory,
                                           parsed_behavior, sessions)
                      IN  [ resp |-> m.resp, sessions |-> m.sessions,
                            videos |-> videos, nonces |-> pow.nonces,
                            pow |-> None ]

----------------------------------------------------------------------------
(* State machine *)

Idle(op) == [ op |-> op, body |-> NoBody, at |-> 0, pow |-> NotCalled,
              resp |-> Failure(""), id |-> "", payload |-> << >>,
              draws |-> NoDraws ]

Init ==
    /\ now = 0
    /\ captcha_sessions = << >>
    /\ video_captcha_sessions = << >>
    /\ pow_used_nonces = << >>
    /\ issued = {}
    /\ last = Idle("start")
    /\ born = << >>
    /\ pow_successes = << >>
    /\ solved_pow = {}
    /\ attempts = << >>
    /\ streams = << >>
    /\ slider_updates = << >>

\* time passes, to one of the given instants
Tick(instants) ==
    /\ \E t \in instants : t > now /\ now' = t
    /\ last' = Idle("tick")
    /\ UNCHANGED <<captcha_sessions, video_captcha_sessions, pow_used_nonces,
                   issued, born, pow_successes, solved_pow, attempts, streams, slider_updates>>

\* GET /generate-captcha?mode=image: generate_captcha(), its random draws
\* taken among `draws`
GenerateCaptcha(draws) ==
    /\ Cardinality(DOMAIN born \cap ImageIds) < MaxImageSessions
    /\ \E d \in draws :
         /\ d.num_interior \in 3..5
         /\ \A i \in 1..Len(d.interiors) : Len(d.interiors[i]) = d.num_interior
         /\ IsPermutation(d.order, GRID_SIZE * GRID_SIZE)
         /\ d.solved_position \in
                NonStart(_generate_keyframe_positions(d.num_interior, d.interiors))
         /\ \E out \in { generate_captcha(d,
                              GRID_SIZE * GRID_SIZE * Cardinality(DOMAIN born \cap ImageIds),
                              Cardinality(DOMAIN born \cap ImageIds)) } :
              /\ captcha_sessions' = captcha_sessions @@ (out.captcha_id :> out.session)
              /\ born' = born @@ (out.captcha_id :> now)
              /\ last' = [ Idle("generate_captcha") EXCEPT
                             !.id = out.captcha_id,
                             !.payload = out.payload,
                             !.draws = d ]
    /\ UNCHANGED <<now, video_captcha_sessions, pow_used_nonces, issued,
                   pow_successes, solved_pow, attempts, streams, slider_updates>>

\* GET /generate-captcha?mode=video: generate_video_captcha(), the target
\* drawn among targets and the ROI among rois
GenerateVideoCaptcha(targets, rois) ==
    /\ Cardinality(DOMAIN born \cap VideoIds) < MaxVideoSessions
    /\ \E secret_target \in targets, roi \in rois :
         LET captcha_id == FreshVideoId(Cardinality(DOMAIN born \cap VideoIds) + 1)
             roi_size == RoiSize(video_width, video_height)
         IN  /\ TARGET_MIN <= secret_target /\ secret_target <= TARGET_MAX
             /\ \A x \in { roi.true_x, roi.start_x } :
                    0 <= x /\ x <= video_width - roi_size
             /\ \A y \in { roi.true_y, roi.start_y } :
                    0 <= y /\ y <= video_height - roi_size
             /\ video_captcha_sessions' = video_captcha_sessions @@
                    (captcha_id :> [ roi |-> roi, roi_size |-> roi_size,
                                     secret_target |-> secret_target,
                                     current_slider |-> 0 ])
             /\ born' = born @@ (captcha_id :> now)
             /\ last' = [ Idle("generate_video_captcha") EXCEPT !.id = captcha_id ]
    /\ UNCHANGED <<now, captcha_sessions, pow_used_nonces, issued,
                   pow_successes, solved_pow, attempts, streams, slider_updates>>

\* POST /pow-challenge: pow_challenge(body), the telemetry of the body drawn
\* among telemetries
PowChallenge(telemetries) ==
    /\ Cardinality(issued) < MaxChallenges
    /\ \E telemetry \in telemetries :
         LET parsed_trajectory == parse_trajectory(telemetry.trajectory)
             parsed_behavior == parse_behavior(telemetry.behavior)
             risk == compute_pow_difficulty(telemetry.fingerprint,
                                            parsed_trajectory, parsed_behavior)
             challenge == generate_pow_challenge(risk.difficulty, now,
                                                 Cardinality(issued) + 1)
         IN  /\ issued' = issued \cup {challenge}
             /\ last' = [ Idle("pow_challenge") EXCEPT
                            !.body = [ NoBody EXCEPT !.telemetry = telemetry ],
                            !.at = now,
                            !.id = risk.risk_level ]
    /\ UNCHANGED <<now, captcha_sessions, video_captcha_sessions, pow_used_nonces,
                   born, pow_successes, solved_pow, attempts, streams, slider_updates>>

\* POST /verify-captcha: verify_captcha(body)
VerifyCaptcha(body) ==
    \E out \in { verify_captcha(body, now, now, now, captcha_sessions,
                                video_captcha_sessions, pow_used_nonces) } :
    LET pair == <<body.pow_salt, body.pow_nonce>>
        fields == [ salt |-> body.pow_salt, difficulty |-> body.pow_difficulty,
                    timestamp |-> body.pow_timestamp,
                    signature |-> body.pow_signature, nonce |-> body.pow_nonce ]
    IN  /\ captcha_sessions' = out.sessions
        /\ video_captcha_sessions' = out.videos
        /\ pow_used_nonces' = out.nonces
        /\ last' = [ op |-> "verify_captcha", body |-> body, at |-> now,
                     pow |-> out.pow, resp |-> out.resp, id |-> body.captcha_id,
                     payload |-> << >>, draws |-> NoDraws ]
        /\ pow_successes' =
               IF out.pow = None
               THEN [ p \in DOMAIN pow_successes \cup {pair} |->
                        IF p = pair
                        THEN (IF p \in DOMAIN pow_successes
                              THEN pow_successes[p] ELSE 0) + 1
                        ELSE pow_successes[p] ]
               ELSE pow_successes
        /\ solved_pow' = IF out.resp.success THEN solved_pow \cup {fields}
                         ELSE solved_pow
        /\ attempts' =
               IF IsSome(out.resp.analysis)
               THEN LET id == body.captcha_id
                        before == IF id \in DOMAIN attempts THEN attempts[id]
                                  ELSE [ evaluated |-> 0, succeeded |-> 0 ]
                        after == [ evaluated |-> before.evaluated + 1,
                                   succeeded |-> before.succeeded +
                                                 (IF out.resp.success THEN 1 ELSE 0) ]
                    IN  [ x \in DOMAIN attempts \cup {id} |->
                            IF x = id THEN after ELSE attempts[x] ]
               ELSE attempts
        /\ UNCHANGED <<now, issued, born, streams, slider_updates>>

----------------------------------------------------------------------------
(* Video stream and slider updates (main.py) *)

\* The generator object _generate_video_stream(captcha_id) returns: pc is the
\* line it stands at, cap the decoder, pos the next frame of the asset,
\* challenge the session dict the loop holds, frame the frame it yielded
\* last.  alive is history: whether the session was stored when the
\* iteration in progress began.
\* The session dict is one object shared with the store: `challenge` is kept
\* equal to the stored session for as long as that is stored, and is what
\* the object holds after `del video_captcha_sessions[captcha_id]`.
Stream(captcha_id) ==
    [ captcha_id |-> captcha_id, pc |-> "created", cap |-> "unopened", pos |-> 0,
      challenge |-> Nothing, frame |-> Nothing, alive |-> FALSE ]

\* l.829: the first next() opens the decoder and enters the loop
StartGenerator(stream) == [ stream EXCEPT !.cap = "open", !.pc = "top" ]

\* a variant of the loop head that looks the session up only once
LoopTopOnce(stream, videos) ==
    LET challenge == IF IsSome(stream.challenge) THEN stream.challenge
                     ELSE IF stream.captcha_id \in DOMAIN videos
                     THEN Some(videos[stream.captcha_id]) ELSE Nothing
    IN  IF challenge = Nothing
        THEN [ stream EXCEPT !.challenge = Nothing, !.pc = "done", !.cap = "released" ]
        ELSE [ stream EXCEPT !.challenge = challenge, !.pc = "read" ]

\* l.835-837: challenge = video_captcha_sessions.get(captcha_id); break when
\* it is None, and the finally clause releases the decoder (l.890-891)
LoopTop(stream, videos) ==
    LET challenge == IF stream.captcha_id \in DOMAIN videos
                     THEN Some(videos[stream.captcha_id]) ELSE Nothing
    IN  IF challenge = Nothing
        THEN [ stream EXCEPT !.challenge = Nothing, !.pc = "done", !.cap = "released" ]
        ELSE [ stream EXCEPT !.challenge = challenge, !.pc = "read" ]

\* l.840-843: ok, frame = cap.read(); at the end of the asset the decoder is
\* rewound and the loop continues
ReadFrame(stream) ==
    IF stream.pos < FrameCount
    THEN [ stream EXCEPT !.pos = stream.pos + 1, !.pc = "compose" ]
    ELSE [ stream EXCEPT !.pos = 0, !.pc = "top" ]

\* l.845-886: the frame composed from the fields of the challenge held, up
\* to the yield
ComposeFrame(stream, osc) ==
    LET challenge == Get(stream.challenge)
        origin == OverlayOrigin(challenge.roi, challenge.roi_size,
                                challenge.current_slider, challenge.secret_target,
                                osc, video_width, video_height)
    IN  [ stream EXCEPT
            !.frame = Some([ slider_val |-> challenge.current_slider,
                             cx |-> origin.cx, cy |-> origin.cy ]),
            !.pc = "yielded" ]

\* the consumer asks for the next frame: l.888-889, then the loop head
ResumeGenerator(stream) == [ stream EXCEPT !.pc = "top" ]

\* the client is gone and the generator is closed: GeneratorExit is raised at
\* the yield and the finally clause releases the decoder; a generator that
\* never ran has opened none
CloseGenerator(stream) ==
    [ stream EXCEPT !.pc = "done",
                    !.cap = IF stream.cap = "open" THEN "released" ELSE stream.cap ]

SliderBody(captcha_id, slider_value, missing) ==
    [ captcha_id |-> captcha_id, slider_value |-> slider_value, missing |-> missing ]

Moved == [ success |-> TRUE, error |-> "", analysis |-> Nothing ]

\* a variant of update_video_slider that only ever moves the slider forward
update_video_slider_forward(body, videos) ==
    IF "captcha_id" \in body.missing \/ "slider_value" \in body.missing
    THEN [ resp |-> Failure(ErrMissingCaptcha), videos |-> videos ]
    ELSE IF body.captcha_id \notin DOMAIN videos
    THEN [ resp |-> Failure(ErrSession), videos |-> videos ]
    ELSE [ resp |-> Moved,
           videos |-> [ videos EXCEPT ![body.captcha_id].current_slider =
                          Max(@, NormalizeSlider(body.slider_value)) ] ]

\* update_video_slider(body) (l.985-1000)
update_video_slider(body, videos) ==
    IF "captcha_id" \in body.missing \/ "slider_value" \in body.missing
    THEN [ resp |-> Failure(ErrMissingCaptcha), videos |-> videos ]
    ELSE IF body.captcha_id \notin DOMAIN videos
    THEN [ resp |-> Failure(ErrSession), videos |-> videos ]
    ELSE [ resp |-> Moved,
           videos |-> [ videos EXCEPT ![body.captcha_id].current_slider =
                          NormalizeSlider(body.slider_value) ] ]

Streaming(op, captcha_id) == [ Idle(op) EXCEPT !.id = captcha_id ]

\* GET /video-captcha-stream/{captcha_id}: video_captcha_stream (l.971-982)
OpenStream(ids) ==
    /\ \E captcha_id \in ids :
         IF captcha_id \notin DOMAIN video_captcha_sessions
         THEN /\ last' = [ Streaming("video_captcha_stream", captcha_id) EXCEPT
                             !.resp = Failure(ErrSession) ]
              /\ UNCHANGED streams
         ELSE /\ Len(streams) < MaxStreams
              /\ streams' = Append(streams, Stream(captcha_id))
              /\ last' = [ Streaming("video_captcha_stream", captcha_id) EXCEPT
                             !.resp = Moved ]
    /\ UNCHANGED <<now, captcha_sessions, video_captcha_sessions, pow_used_nonces,
                   issued, born, pow_successes, solved_pow, attempts, slider_updates>>

\* the steps of the generator s, run by the thread pool between two yields
StreamStep(s, stream) ==
    /\ streams' = [ streams EXCEPT ![s] = stream ]
    /\ last' = Streaming("_generate_video_stream", stream.captcha_id)
    /\ UNCHANGED <<now, captcha_sessions, video_captcha_sessions, pow_used_nonces,
                   issued, born, pow_successes, solved_pow, attempts, slider_updates>>

StreamStart(s) ==
    /\ s \in DOMAIN streams
    /\ streams[s].pc = "created"
    /\ StreamStep(s, StartGenerator(streams[s]))

StreamTop(s) ==
    /\ s \in DOMAIN streams
    /\ streams[s].pc = "top"
    /\ StreamStep(s, [ LoopTop(streams[s], video_captcha_sessions) EXCEPT
                         !.alive = streams[s].captcha_id \in DOMAIN video_captcha_sessions ])

StreamRead(s) ==
    /\ s \in DOMAIN streams
    /\ streams[s].pc = "read"
    /\ StreamStep(s, ReadFrame(streams[s]))

\* math.sin is not computed: osc is any of oscs
StreamCompose(s, oscs) ==
    /\ s \in DOMAIN streams
    /\ streams[s].pc = "compose"
    /\ \E osc \in oscs : StreamStep(s, ComposeFrame(streams[s], osc))

StreamResume(s) ==
    /\ s \in DOMAIN streams
    /\ streams[s].pc = "yielded"
    /\ StreamStep(s, ResumeGenerator(streams[s]))

CloseStream(s) ==
    /\ s \in DOMAIN streams
    /\ streams[s].pc \in { "created", "yielded" }
    /\ StreamStep(s, CloseGenerator(streams[s]))

\* POST /video-captcha-slider: update_video_slider(body); the streams that
\* hold the session see the assignment
UpdateVideoSlider(bodies) ==
    /\ \E body \in bodies :
         \E out \in { update_video_slider(body, video_captcha_sessions) } :
           /\ video_captcha_sessions' = out.videos
           /\ streams' =
                  [ s \in DOMAIN streams |->
                      IF /\ out.resp.success
                         /\ streams[s].captcha_id = body.captcha_id
                         /\ IsSome(streams[s].challenge)
                      THEN [ streams[s] EXCEPT
                               !.challenge = Some(out.videos[body.captcha_id]) ]
                      ELSE streams[s] ]
           /\ slider_updates' =
                  IF out.resp.success
                  THEN [ id \in DOMAIN slider_updates \cup { body.captcha_id } |->
                           IF id = body.captcha_id THEN body.slider_value
                           ELSE slider_updates[id] ]
                  ELSE slider_updates
           /\ last' = [ Streaming("update_video_slider", body.captcha_id) EXCEPT
                          !.body = body, !.resp = out.resp ]
    /\ UNCHANGED <<now, captcha_sessions, pow_used_nonces, issued, born,
                   pow_successes, solved_pow, attempts>>

----------------------------------------------------------------------------
(* Environments: the requests clients send *)

\* the PoW fields of an issued challenge, as issued
AsIssued(ch) ==
    [ salt |-> ch.salt, difficulty |-> ch.difficulty, timestamp |-> ch.timestamp ]

\* the signature of a client without the key
Forged(v) == HmacSha256("guess", Payload(v.salt, v.difficulty, v.timestamp))

\* Requests that vary the PoW fields of the issued challenges: each challenge
\* as issued with every nonce; each variant of it under the issued signature
\* and under a forged one.
PowBodies ==
    LET B(v, sig, n) == Body(FreshImageId(1), 42, "image", v, sig, n, HumanTelemetry, {})
    IN  UNION { { B(AsIssued(ch), ch.signature, n) : n \in Nonces }
                \cup { B(v, ch.signature, 1) : v \in Variants(ch, now) }
                \cup { B(v, Forged(v), 1) : v \in Variants(ch, now) }
                \cup { B([ AsIssued(ch) EXCEPT !.difficulty = 1 ], ch.signature, 2) }
                : ch \in issued }

\* Requests with fields left out
MissingBodies ==
    { Body(FreshImageId(1), 42, "image", AsIssued(ch), ch.signature, 1,
           HumanTelemetry, m) : ch \in issued, m \in MissingSets }

\* the server under requests that vary the PoW fields
Next ==
    \/ Tick(Instants)
    \/ PowChallenge(Telemetries)
    \/ \E body \in PowBodies \cup MissingBodies : VerifyCaptcha(body)

Spec == Init /\ [][Next]_vars

\* the requests of a client that solved the PoW of an issued challenge: the
\* challenge as issued, a nonce that meets its difficulty
Solved(ch, n, id, slider_value, mode, telemetry) ==
    Body(id, slider_value, mode, AsIssued(ch), ch.signature, n, telemetry, {})

\* Requests against the image store: answers around the solved position,
\* from a human-like and from a bare client; a second valid nonce; a request
\* whose nonce misses the target, one with a forged signature, one in video
\* mode, one with a field left out, one for an identifier never issued.
ImageSliders == { 38, 39, 42, 45, 46 }

ImageBodies ==
    LET id == FreshImageId(1)
    IN  UNION { { Solved(ch, 1, id, s, "image", tel) :
                      s \in ImageSliders, tel \in { HumanTelemetry, NoTelemetry } }
                \cup { Solved(ch, 0, id, 42, "image", HumanTelemetry),
                       Solved(ch, 2, id, 42, "image", HumanTelemetry),
                       Solved(ch, 1, id, 42, "video", HumanTelemetry),
                       Solved(ch, 0, "i-0", 42, "image", HumanTelemetry),
                       Body(id, 42, "image", AsIssued(ch), Forged(AsIssued(ch)), 1,
                            HumanTelemetry, {}),
                       Body(id, 42, "image", AsIssued(ch), ch.signature, 1,
                            HumanTelemetry, {"slider_value"}),
                       Body(id, 42, "image", AsIssued(ch), ch.signature, 1,
                            HumanTelemetry, {"pow_nonce"}) }
                : ch \in issued }

\* the server under requests against the image store
NextImage ==
    \/ Tick(Epochs)
    \/ GenerateCaptcha(PlainDraws)
    \/ PowChallenge({ HumanTelemetry })
    \/ \E body \in ImageBodies : VerifyCaptcha(body)

SpecImage == Init /\ [][NextImage]_vars

\* Requests against the video store: sliders around the targets and beyond
\* the slider range, from a human-like and from a bare client; a request in
\* image mode, one whose nonce misses the target, one with a field left out.
VideoSliders == { 370, 371, 430, 431, 570, 571, 630, 631, 1040, -5 }

VideoBodies ==
    LET id == FreshVideoId(1)
    IN  UNION { { Solved(ch, 1, id, s, "video", HumanTelemetry) : s \in VideoSliders }
                \cup { Solved(ch, 1, id, 600, "video", NoTelemetry),
                       Solved(ch, 0, id, 600, "video", HumanTelemetry),
                       Solved(ch, 0, id, 400, "video", HumanTelemetry),
                       Solved(ch, 2, id, 600, "video", HumanTelemetry),
                       Solved(ch, 0, id, 600, "image", HumanTelemetry),
                       Body(id, 600, "video", AsIssued(ch), ch.signature, 1,
                            HumanTelemetry, {"pow_salt"}) }
                : ch \in issued }

\* the server under requests against the video store
NextVideo ==
    \/ Tick(Epochs)
    \/ GenerateVideoCaptcha(TargetSamples, { PlainRoi })
    \/ PowChallenge({ HumanTelemetry })
    \/ \E body \in VideoBodies : VerifyCaptcha(body)

SpecVideo == Init /\ [][NextVideo]_vars

\* Both stores with one honest client each, while time passes: time.time()
\* advances whatever the server does.
LiveBodies ==
    UNION { { Solved(ch, 1, FreshImageId(1), 42, "image", HumanTelemetry),
              Solved(ch, 0, FreshVideoId(1), 600, "video", HumanTelemetry),
              Solved(ch, 0, FreshVideoId(1), 100, "video", HumanTelemetry) }
            : ch \in issued }

NextLive ==
    \/ Tick(Epochs)
    \/ GenerateCaptcha(PlainDraws)
    \/ GenerateVideoCaptcha(TargetSamples, { PlainRoi })
    \/ PowChallenge({ HumanTelemetry })
    \/ \E body \in LiveBodies : VerifyCaptcha(body)

SpecLive == Init /\ [][NextLive]_vars /\ WF_vars(Tick(Epochs))

\* Requests that race for one session: for the image and for the video
\* session, a right and a wrong answer under each of the two nonces that meet
\* the difficulty of the issued challenge, all within one instant.  The event
\* loop runs the handlers one after the other, in any order.
RaceBodies ==
    UNION { { Solved(ch, n, FreshImageId(1), s, "image", HumanTelemetry) :
                  n \in {0, 1}, s \in {42, 46} }
            \cup { Solved(ch, n, FreshVideoId(1), s, "video", HumanTelemetry) :
                       n \in {0, 1}, s \in {600, 100} }
            : ch \in issued }

NextRace ==
    \/ GenerateCaptcha(PlainDraws)
    \/ GenerateVideoCaptcha(TargetSamples, { PlainRoi })
    \/ PowChallenge({ HumanTelemetry })
    \/ \E body \in RaceBodies : VerifyCaptcha(body)

SpecRace == Init /\ [][NextRace]_vars

\* The generator alone, over every combination of the sampled draws
NextGen == GenerateCaptcha(AllDraws)

SpecGen == Init /\ [][NextGen]_vars

\* The reflection and the overlay origin as pure functions of their inputs,
\* each applied once to inputs drawn from the samples.
BouncePos ==
    \E value \in FloatSamples, minimum \in MinimumSamples, maximum \in MaximumSamples :
        /\ last.op = "start"
        /\ last' = [ Idle("_bounce_pos") EXCEPT
                       !.body = [ value |-> value, minimum |-> minimum,
                                  maximum |-> maximum ],
                       !.resp = _bounce_pos(value, minimum, maximum) ]
        /\ UNCHANGED <<now, captcha_sessions, video_captcha_sessions,
                       pow_used_nonces, issued, born, pow_successes, solved_pow,
                       attempts, streams, slider_updates>>

ComposeOrigin ==
    \E shape \in FrameShapes, slider_value \in SliderSamples,
       secret_target \in TargetSamples, osc \in OscSamples :
      \E roi \in RoiSamples(shape[1], shape[2]) :
        /\ last.op = "start"
        /\ last' = [ Idle("overlay_origin") EXCEPT
                       !.body = [ roi |-> roi,
                                  roi_size |-> RoiSize(shape[1], shape[2]),
                                  current_slider |-> NormalizeSlider(slider_value),
                                  secret_target |-> secret_target, osc |-> osc,
                                  shape |-> shape ],
                       !.resp = OverlayOrigin(roi, RoiSize(shape[1], shape[2]),
                                              NormalizeSlider(slider_value),
                                              secret_target, osc, shape[1], shape[2]) ]
        /\ UNCHANGED <<now, captcha_sessions, video_captcha_sessions,
                       pow_used_nonces, issued, born, pow_successes, solved_pow,
                       attempts, streams, slider_updates>>

NextBounce == BouncePos \/ ComposeOrigin

SpecBounce == Init /\ [][NextBounce]_vars

\* One video challenge with a client that watches the stream, moves the
\* slider and submits it, and may leave at any time.
StreamIds == VideoIds \cup { "v0" }
StreamOscs == { -FINE, (3 * FINE) \div 8 }
SliderBodies ==
    { SliderBody(FreshVideoId(1), slider_value, {}) : slider_value \in { -50, 600, 1500 } }
    \cup { SliderBody("v0", 600, {}), SliderBody(FreshVideoId(1), 600, {"slider_value"}) }
StreamBodies ==
    UNION { { Solved(ch, 1, FreshVideoId(1), 600, "video", HumanTelemetry),
              Solved(ch, 1, FreshVideoId(1), 100, "video", HumanTelemetry) }
            : ch \in issued }

NextStream ==
    \/ GenerateVideoCaptcha({ 600500 }, { PlainRoi })
    \/ PowChallenge({ HumanTelemetry })
    \/ \E body \in StreamBodies : VerifyCaptcha(body)
    \/ OpenStream(StreamIds)
    \/ UpdateVideoSlider(SliderBodies)
    \/ \E s \in 1..MaxStreams : StreamStart(s)
    \/ \E s \in 1..MaxStreams : StreamTop(s)
    \/ \E s \in 1..MaxStreams : StreamRead(s)
    \/ \E s \in 1..MaxStreams : StreamCompose(s, StreamOscs)
    \/ \E s \in 1..MaxStreams : StreamResume(s)
    \/ \E s \in 1..MaxStreams : CloseStream(s)

SpecStream == Init /\ [][NextStream]_vars

\* The thread pool runs a generator up to its next yield, and the consumer
\* of a yielded frame either asks for the next one or closes the generator.
StreamFairness ==
    \A s \in 1..MaxStreams :
        /\ WF_vars(StreamStart(s) \/ StreamTop(s) \/ StreamRead(s)
                      \/ StreamCompose(s, StreamOscs))
        /\ WF_vars(StreamResume(s) \/ CloseStream(s))

SpecStreamLive == SpecStream /\ StreamFairness

\* The generator over the cuts of the grid.
NextCut == GenerateCaptcha(CutDraws)

SpecCut == Init /\ [][NextCut]_vars

\* The risk analyzer on its own: the telemetry of a request is drawn at the
\* start, and the analyzer, the difficulty mapping and the /pow-challenge
\* handler are applied to it.
Received(telemetry) ==
    [ Idle("received") EXCEPT !.body = [ NoBody EXCEPT !.telemetry = telemetry ] ]

Returned(op, body, result) ==
    [ Idle(op) EXCEPT !.body = body,
                      !.resp = [ success |-> FALSE, error |-> "",
                                 analysis |-> Some(result) ] ]

InitRisk ==
    /\ now = 0
    /\ captcha_sessions = << >>
    /\ video_captcha_sessions = << >>
    /\ pow_used_nonces = << >>
    /\ issued = {}
    /\ \E telemetry \in RiskTelemetries : last = Received(telemetry)
    /\ born = << >>
    /\ pow_successes = << >>
    /\ solved_pow = {}
    /\ attempts = << >>
    /\ streams = << >>
    /\ slider_updates = << >>

\* analyze_bot_risk(session) on the parsed telemetry received
AnalyzeBotRisk ==
    /\ last.op = "received"
    /\ \E result \in { analyze_bot_risk(CaptchaSession(0,
                             last.body.telemetry.fingerprint,
                             parse_trajectory(last.body.telemetry.trajectory),
                             parse_behavior(last.body.telemetry.behavior))) } :
         last' = Returned("analyze_bot_risk", last.body, result)
    /\ UNCHANGED <<now, captcha_sessions, video_captcha_sessions, pow_used_nonces,
                   issued, born, pow_successes, solved_pow, attempts, streams, slider_updates>>

\* compute_pow_difficulty(fingerprint, trajectory, behavior) on the parsed
\* telemetry received
ComputePowDifficulty ==
    /\ last.op = "received"
    /\ \E risk \in { compute_pow_difficulty(last.body.telemetry.fingerprint,
                           parse_trajectory(last.body.telemetry.trajectory),
                           parse_behavior(last.body.telemetry.behavior)) } :
         last' = Returned("compute_pow_difficulty", last.body, risk)
    /\ UNCHANGED <<now, captcha_sessions, video_captcha_sessions, pow_used_nonces,
                   issued, born, pow_successes, solved_pow, attempts, streams, slider_updates>>

NextRisk ==
    \/ AnalyzeBotRisk
    \/ ComputePowDifficulty
    \/ (last.op = "received" /\ PowChallenge({ last.body.telemetry }))

SpecRisk == InitRisk /\ [][NextRisk]_vars

\* The image store under clients that answer with the solved position or
\* beside it and send a twenty-point trajectory
HappyBodies ==
    UNION { { Solved(ch, n, FreshImageId(1), slider_value, "image", telemetry) :
                n \in { 0, 1 }, slider_value \in SolvedSamples \cup { 46 },
                telemetry \in HappyTelemetries }
            : ch \in issued }

NextHappy ==
    \/ GenerateCaptcha(PlainDraws)
    \/ PowChallenge(HappyTelemetries)
    \/ \E body \in HappyBodies : VerifyCaptcha(body)

SpecHappy == Init /\ [][NextHappy]_vars

\* Both session stores under requests the coordinator turns away before the
\* session lookup, next to requests it lets through: per mode a request with
\* a valid PoW, one whose nonce misses the target, one with a forged
\* signature and one with a field left out.
StoreBodies ==
    UNION { UNION { { Solved(ch, 1, id[1], id[2], id[3], HumanTelemetry),
                      Solved(ch, 2, id[1], id[2], id[3], HumanTelemetry),
                      Body(id[1], id[2], id[3], AsIssued(ch), Forged(AsIssued(ch)), 1,
                           HumanTelemetry, {}),
                      Body(id[1], id[2], id[3], AsIssued(ch), ch.signature, 1,
                           HumanTelemetry, {"slider_value"}),
                      Body(id[1], id[2], id[3], AsIssued(ch), ch.signature, 1,
                           HumanTelemetry, {"pow_timestamp"}) }
                    : id \in { <<FreshImageId(1), 46, "image">>,
                               <<FreshVideoId(1), 100, "video">> } }
            : ch \in issued }

NextStores ==
    \/ Tick(Epochs)
    \/ GenerateCaptcha(PlainDraws)
    \/ GenerateVideoCaptcha(TargetSamples, { PlainRoi })
    \/ PowChallenge({ HumanTelemetry })
    \/ \E body \in StoreBodies : VerifyCaptcha(body)

SpecStores == Init /\ [][NextStores]_vars

----------------------------------------------------------------------------
(* Claims about the PoW subsystem, checked under Spec *)

\* the step just taken handled a /verify-captcha request that reached verify_pow
PowCalled == last.op = "verify_captcha" /\ last.pow # NotCalled

\* the request of the last step carries the challenge ch unchanged
Carries(b, ch) ==
    /\ b.pow_salt = ch.salt
    /\ b.pow_difficulty = ch.difficulty
    /\ b.pow_timestamp = ch.timestamp
    /\ b.pow_signature = ch.signature

\* age = int(now) - timestamp of the last request, at the time it was handled
AgeOf(l) == IntTime(l.at) - l.body.pow_timestamp

\* C1: a (salt, nonce) pair makes verify_pow return None at most once, over
\* any sequence of calls at any points in time.
C1_NonceVerifiesAtMostOnce ==
    \A p \in DOMAIN pow_successes : pow_successes[p] <= 1

\* C2: verify_pow returns the reason of the first failing check in the order
\* signature, freshness, replay, hash, and the ledger gains an entry only
\* when all four checks have passed.
C2_ChecksInOrder ==
    [][ (last'.op = "verify_captcha" /\ last'.pow # NotCalled) =>
          LET b == last'.body
              key == ReplayKey(b.pow_salt, b.pow_nonce)
              sig_ok == SignatureOk(b.pow_salt, b.pow_difficulty, b.pow_timestamp,
                                    b.pow_signature)
              fresh == Fresh(b.pow_timestamp, now)
              replayed == key \in DOMAIN pow_used_nonces /\ pow_used_nonces[key] > now
              hash_ok == verify_pow_nonce(b.pow_salt, b.pow_difficulty, b.pow_nonce)
              first == IF ~sig_ok THEN ErrSignature
                       ELSE IF ~fresh THEN ErrExpired
                       ELSE IF replayed THEN ErrReplay
                       ELSE IF ~hash_ok THEN ErrHash
                       ELSE None
              burned == { k \in DOMAIN pow_used_nonces' :
                            k \notin DOMAIN pow_used_nonces
                            \/ pow_used_nonces'[k] # pow_used_nonces[k] }
          IN  /\ last'.pow = first
              /\ burned # {} => (sig_ok /\ fresh /\ ~replayed /\ hash_ok
                                 /\ burned = {key})
      ]_vars

\* C2 witness: a request failing the signature, freshness and hash checks at
\* once was answered with the signature error.
C2_Witness ==
    /\ PowCalled
    /\ last.pow = ErrSignature
    /\ ~Fresh(last.body.pow_timestamp, last.at)
    /\ ~verify_pow_nonce(last.body.pow_salt, last.body.pow_difficulty,
                         last.body.pow_nonce)

\* C3: with a valid signature, verify_pow answers "PoW challenge expired"
\* exactly when age = now - timestamp (whole seconds) is negative or above
\* 300, whatever the nonce.
C3_ExpiredIffAgeOutside ==
    (PowCalled /\ last.body.pow_signature =
                    ExpectedSig(last.body.pow_salt, last.body.pow_difficulty,
                                last.body.pow_timestamp))
        => (last.pow = ErrExpired <=> (AgeOf(last) < 0 \/ AgeOf(last) > 300))

\* C3 witness: a validly signed challenge rejected as expired at age 301.
C3_Witness ==
    /\ PowCalled
    /\ last.pow = ErrExpired
    /\ AgeOf(last) = 301
    /\ \E ch \in issued : Carries(last.body, ch)

\* C4: a request that carries an issued signature with a salt, difficulty or
\* timestamp other than the ones issued with it gets "Invalid PoW
\* signature", and the signature check passes only for the tuples
\* generate_pow_challenge produced.
C4_TamperRejected ==
    PowCalled =>
        /\ \A ch \in issued :
             (last.body.pow_signature = ch.signature /\ ~Carries(last.body, ch))
                 => last.pow = ErrSignature
        /\ last.pow # ErrSignature => \E ch \in issued : Carries(last.body, ch)

\* C4 witness: an issued signature submitted with a changed salt or
\* difficulty was rejected by the signature check.
C4_Witness ==
    /\ PowCalled
    /\ last.pow = ErrSignature
    /\ \E ch \in issued :
         /\ last.body.pow_signature = ch.signature
         /\ last.body.pow_timestamp = ch.timestamp
         /\ last.body.pow_salt # ch.salt
         /\ last.body.pow_difficulty # ch.difficulty

\* C5: a challenge submitted unchanged within its lifetime, with a nonce
\* whose hash has at least `difficulty` leading zero bits and that never
\* verified with that salt before, makes verify_pow return None.
C5_RoundTrip ==
    [][ (/\ last'.op = "verify_captcha" /\ last'.pow # NotCalled
         /\ \E ch \in issued : Carries(last'.body, ch)
         /\ LeadingZeroBits(last'.body.pow_salt, last'.body.pow_nonce)
                >= last'.body.pow_difficulty
         /\ <<last'.body.pow_salt, last'.body.pow_nonce>> \notin DOMAIN pow_successes
         /\ IntTime(now) - last'.body.pow_timestamp \in 0..POW_CHALLENGE_TTL)
        => last'.pow = None
      ]_vars

\* C5 witness: a challenge of difficulty 22 verified in the last second of
\* its lifetime.
C5_Witness ==
    /\ PowCalled
    /\ last.pow = None
    /\ last.body.pow_difficulty = 22
    /\ AgeOf(last) = POW_CHALLENGE_TTL
    /\ \E ch \in issued : Carries(last.body, ch)

----------------------------------------------------------------------------
(* Claims about the verification coordinator and the session stores,
   checked under SpecImage, SpecVideo and SpecLive *)

\* the PoW fields of a request
PowFieldsOf(b) ==
    [ salt |-> b.pow_salt, difficulty |-> b.pow_difficulty,
      timestamp |-> b.pow_timestamp, signature |-> b.pow_signature,
      nonce |-> b.pow_nonce ]

\* C6: verify_captcha rejects a request without captcha_id or slider_value
\* first, then one without a PoW field, then one whose PoW fails, before any
\* session is looked up; so a request that repeats the PoW fields of a
\* successful solve, while the challenge is alive, gets "PoW nonce already
\* used".
C6_GatesInOrder ==
    [][ last'.op = "verify_captcha" =>
          LET b == last'.body
              r == last'.resp
              no_id == "captcha_id" \in b.missing \/ "slider_value" \in b.missing
              no_pow == PowFields \cap b.missing # {}
          IN  /\ no_id => r.error = ErrMissingCaptcha
              /\ (~no_id /\ no_pow) => r.error = ErrMissingPow
              /\ (~no_id /\ ~no_pow /\ last'.pow \in PowErrors) =>
                     /\ r.error = last'.pow
                     /\ UNCHANGED <<captcha_sessions, video_captcha_sessions>>
              /\ (/\ b.missing = {}
                  /\ PowFieldsOf(b) \in solved_pow
                  /\ IntTime(now) - b.pow_timestamp <= POW_CHALLENGE_TTL)
                     => r.error = ErrReplay
      ]_vars

\* C7: an image session leaves the store at the first image-mode attempt for
\* its captcha_id that passes the PoW gate, solved or not; an attempt the
\* gates reject, or one in video mode, leaves it there; once it is gone no
\* attempt for it succeeds and every image-mode attempt passing the PoW gate
\* gets "Invalid or expired captcha_id".
C7_ConsumedByFirstGatedAttempt ==
    [][ last'.op = "verify_captcha" =>
          LET id == last'.body.captcha_id
              gated == last'.pow = None /\ last'.body.mode = "image"
          IN  IF id \in DOMAIN captcha_sessions
              THEN IF gated
                   THEN captcha_sessions' = Without(captcha_sessions, id)
                   ELSE captcha_sessions' = captcha_sessions
              ELSE id \in DOMAIN born =>
                     /\ ~last'.resp.success
                     /\ gated => last'.resp.error = ErrSession
      ]_vars

\* C7 witness: an image-mode attempt that passed the PoW gate for a session
\* already taken got "Invalid or expired captcha_id".
C7_Witness ==
    /\ last.op = "verify_captcha"
    /\ last.pow = None
    /\ last.body.mode = "image"
    /\ last.id \in DOMAIN born
    /\ last.resp.error = ErrSession

\* C7 as stated: the first complete image-mode attempt made against a stored
\* captcha_id removes the session, whatever its result.
C7_ConsumedByFirstAttempt ==
    [][ (/\ last'.op = "verify_captcha"
         /\ last'.body.missing = {}
         /\ last'.body.mode = "image"
         /\ last'.body.captcha_id \in DOMAIN captcha_sessions)
        => last'.body.captcha_id \notin DOMAIN captcha_sessions'
      ]_vars

\* C8: every image session and every video session that is created is
\* eventually removed from its store, even when no verification is submitted
\* for it.
C8_SessionsEventuallyRemoved ==
    \A id \in ImageIds \cup VideoIds :
        (id \in DOMAIN captcha_sessions \cup DOMAIN video_captcha_sessions)
            ~> (id \notin DOMAIN captcha_sessions \cup DOMAIN video_captcha_sessions)

\* C9: an image-mode request that passes the PoW gate and finds its session
\* succeeds exactly when |slider_value - solved_value| <= 3 and the analysis
\* it returns says is_bot = false.
C9_SuccessIffSolvedAndHuman ==
    [][ (/\ last'.op = "verify_captcha"
         /\ last'.pow = None
         /\ last'.body.mode = "image"
         /\ last'.body.captcha_id \in DOMAIN captcha_sessions)
        => LET solved_keyframe == captcha_sessions[last'.body.captcha_id].solved_value
               distance == last'.body.slider_value - solved_keyframe
           IN  /\ IsSome(last'.resp.analysis)
               /\ last'.resp.success <=>
                      (/\ distance >= -3 /\ distance <= 3
                       /\ ~Get(last'.resp.analysis).is_bot)
      ]_vars

\* C9 witness: slider_value 45 was accepted (the solved position is 42).
C9_Witness ==
    /\ last.op = "verify_captcha"
    /\ last.body.mode = "image"
    /\ last.body.slider_value = 45
    /\ last.resp.success

\* C10: a video-mode attempt that passes the PoW gate and finds its session
\* succeeds exactly when |target - clamp(slider_value/1000, 0, 1)| <= 0.03
\* and is_bot is false; the session is removed exactly by a successful
\* attempt and stays after any other request; an attempt passing the PoW
\* gate for a session no longer stored gets "Invalid or expired captcha_id".
C10_VideoPeekedUntilSolved ==
    [][ last'.op = "verify_captcha" =>
          LET id == last'.body.captcha_id
              r == last'.resp
              scaled == last'.body.slider_value * 1000
              clamped == IF scaled < 0 THEN 0
                         ELSE IF scaled > 1000000 THEN 1000000 ELSE scaled
          IN  IF last'.pow = None /\ last'.body.mode = "video"
              THEN IF id \in DOMAIN video_captcha_sessions
                   THEN LET distance ==
                                video_captcha_sessions[id].secret_target - clamped
                        IN  /\ IsSome(r.analysis)
                            /\ r.success <=>
                                   (/\ distance >= -30000 /\ distance <= 30000
                                    /\ ~Get(r.analysis).is_bot)
                            /\ video_captcha_sessions' =
                                   IF r.success
                                   THEN Without(video_captcha_sessions, id)
                                   ELSE video_captcha_sessions
                   ELSE /\ ~r.success
                        /\ r.error = ErrSession
                        /\ UNCHANGED video_captcha_sessions
              ELSE UNCHANGED video_captcha_sessions
      ]_vars

\* C10 witness: after a successful attempt removed the video session, a
\* further attempt that passed the PoW gate got "Invalid or expired
\* captcha_id".
C10_Witness ==
    /\ last.op = "verify_captcha"
    /\ last.pow = None
    /\ last.body.mode = "video"
    /\ last.id \in DOMAIN born
    /\ last.resp.error = ErrSession
    /\ solved_pow # {}

\* C11: of the requests for one image captcha_id that pass the PoW gate, in
\* whatever order the event loop runs them, exactly one is evaluated against
\* the session and every other one gets "Invalid or expired captcha_id";
\* for an image or a video captcha_id at most one request returns success.
C11_OneTakerOneSuccess ==
    /\ \A id \in DOMAIN attempts :
         /\ attempts[id].succeeded <= 1
         /\ id \in ImageIds => attempts[id].evaluated <= 1
    /\ (/\ last.op = "verify_captcha"
        /\ last.pow = None
        /\ last.body.mode = "image"
        /\ last.id \in DOMAIN born)
       => /\ last.id \in DOMAIN attempts
          /\ attempts[last.id].evaluated = 1
          /\ last.id \notin DOMAIN captcha_sessions
          /\ ~IsSome(last.resp.analysis) => last.resp.error = ErrSession

\* C11 witness: a second request with a PoW of its own, in the instant the
\* image session was stored and taken, got "Invalid or expired captcha_id".
C11_Witness ==
    /\ last.op = "verify_captcha"
    /\ last.pow = None
    /\ last.body.mode = "image"
    /\ last.id \in DOMAIN born
    /\ born[last.id] = now
    /\ last.resp.error = ErrSession
    /\ last.id \in DOMAIN attempts
    /\ attempts[last.id].evaluated = 1

\* C11 as stated: for any captcha_id, exactly one of the requests that pass
\* the PoW gate is evaluated against the session.
C11_OneAttemptEvaluated ==
    \A id \in DOMAIN attempts : attempts[id].evaluated <= 1

\* C12: whenever a verification passes the PoW gate, the pow_difficulty it
\* carries is at least the difficulty compute_pow_difficulty assigns to the
\* fingerprint, trajectory and behaviour of that same request.
C12_DifficultyBoundToRisk ==
    (last.op = "verify_captcha" /\ last.pow = None)
        => last.body.pow_difficulty >=
               compute_pow_difficulty(
                   last.body.telemetry.fingerprint,
                   parse_trajectory(last.body.telemetry.trajectory),
                   parse_behavior(last.body.telemetry.behavior)).difficulty

----------------------------------------------------------------------------
(* Claims about challenge generation, checked under SpecGen *)

\* the response of the last request is the payload of generate_captcha
Generated == last.op = "generate_captcha"

\* the keyframe `k` of payload `p` places every piece at the offset the
\* payload publishes for it
AtTrueOffsets(p, k) ==
    \A i \in 1..Len(p.keyframes[k]) :
        LET e == p.keyframes[k][i]
        IN  e.x = p.pieces[e.piece_id].ox /\ e.y = p.pieces[e.piece_id].oy

\* the positions an observer of payload `p` finds with every piece in place
Assembled(p) == { k \in DOMAIN p.keyframes : AtTrueOffsets(p, k) }

\* C13: the payload of generate_captcha does not depend on the solved
\* position: the run that differs from the one made only in the solved
\* position drawn returns the same payload, so an observer cannot tell the
\* two challenges apart.
C13_PayloadHidesSolved ==
    Generated =>
        LET d == last.draws
            m == Cardinality(DOMAIN born \cap ImageIds) - 1
            others == NonStart(_generate_keyframe_positions(d.num_interior, d.interiors))
        IN  \A s \in others :
                generate_captcha([ d EXCEPT !.solved_position = s ],
                                 GRID_SIZE * GRID_SIZE * m, m).payload = last.payload

\* C19: the keyframe at solved_value places every piece at (ox, oy) and no
\* other keyframe of the challenge places all nine pieces at their offsets.
C19_SolvedKeyframeUnique ==
    Generated =>
        Assembled(last.payload) = { ToString(captcha_sessions[last.id].solved_value) }

\* C20: the solved_value of every stored image session lies in 1..100, and
\* the solved_value of the session just stored is one of the keyframe
\* positions of the payload, on the retry path and on the fallback path.
C20_SolvedValuePublished ==
    /\ \A id \in DOMAIN captcha_sessions :
           captcha_sessions[id].solved_value \in 1..100
    /\ Generated =>
           /\ last.id \in DOMAIN captcha_sessions
           /\ ToString(captcha_sessions[last.id].solved_value)
                  \in DOMAIN last.payload.keyframes

\* a challenge whose keyframe positions came from the fallback path
C20_Witness ==
    /\ Generated
    /\ \A i \in 1..RETRIES :
           ~KeyframePositionsOk(<<0>> \o last.draws.interiors[Min(i, Len(last.draws.interiors))]
                                   \o <<100>>)
    /\ last.draws.num_interior = 5
    /\ captcha_sessions[last.id].solved_value = 16
    /\ DOMAIN last.payload.keyframes = { "0", "16", "32", "48", "64", "80", "100" }

----------------------------------------------------------------------------
(* Claims about the responses of the coordinator, checked under SpecImage *)

\* the last request passed the PoW gate and was refused
GatedRefusal ==
    /\ last.op = "verify_captcha"
    /\ last.pow = None
    /\ ~last.resp.success

\* C14: a request that passes the PoW gate and is refused gets the same kind
\* of response, success false plus analysis and no error text, whether the
\* session was missing, the answer wrong or the risk too high.
C14_RefusalsAlike ==
    GatedRefusal => /\ IsSome(last.resp.analysis)
                    /\ last.resp.error = ""

----------------------------------------------------------------------------
(* Claims about the risk analyzer, checked under SpecRisk *)

\* the points the rule that reports a flag subtracts
Penalty(flag) ==
    CASE flag = "missing_fingerprint" -> 30
      [] flag = "suspicious_user_agent" -> 20
      [] flag = "invalid_screen_resolution" -> 15
      [] flag = "webdriver_detected" -> 35
      [] flag = "missing_timezone" -> 5
      [] flag = "missing_canvas_fingerprint" -> 10
      [] flag = "insufficient_trajectory_data" -> 30
      [] flag = "linear_velocity_pattern" -> 20
      [] flag = "uniform_delta_pattern" -> 15
      [] flag = "low_slider_entropy" -> 15
      [] flag = "no_movement_pauses" -> 15
      [] flag = "missing_behavior_data" -> 25
      [] flag = "invalid_behavior_duration" -> 20
      [] flag = "suspiciously_fast" -> 25
      [] flag = "very_fast" -> 10
      [] flag = "suspiciously_slow" -> 10
      [] flag = "missing_mousedown" -> 10
      [] flag = "insufficient_mouse_movement" -> 20
      [] flag = "limited_mouse_movement" -> 10
      [] flag = "low_event_count" -> 10

Penalties(flags) == SumSeq([ i \in 1..Len(flags) |-> Penalty(flags[i]) ])

\* what analyze_bot_risk returns for a telemetry
RiskOf(telemetry) ==
    analyze_bot_risk(CaptchaSession(0, telemetry.fingerprint,
                                    parse_trajectory(telemetry.trajectory),
                                    parse_behavior(telemetry.behavior)))

Analyzed == last.op = "analyze_bot_risk"

\* C15: analyze_bot_risk returns confidence_score = max(0, min(100, 100 -
\* the penalties of the flags it reports)), a score in 0..100, and is_bot
\* exactly when that score is below 60.
C15_ScoreIsClampedPenalties ==
    Analyzed =>
        LET r == Get(last.resp.analysis)
        IN  /\ r.confidence_score = Max(0, Min(100, 100 - Penalties(r.flags)))
            /\ r.confidence_score \in 0..100
            /\ r.is_bot <=> r.confidence_score < 60
            /\ Cardinality(Range(r.flags)) = Len(r.flags)

\* an input whose penalties exceed 100: the clamp acts
C15_Witness ==
    /\ Analyzed
    /\ Penalties(Get(last.resp.analysis).flags) > 100
    /\ Get(last.resp.analysis).confidence_score = 0
    /\ Get(last.resp.analysis).is_bot

\* C16 (as amended): of two inputs where the flags of one are a strict
\* superset of the flags of the other, the one with more flags never scores
\* higher, and scores strictly lower unless the other already scores 0.
C16_MoreFlagsLowerScoreAboveZero ==
    Analyzed =>
        LET r == Get(last.resp.analysis)
        IN  \A t \in RiskTelemetries :
                LET q == RiskOf(t)
                IN  (Range(r.flags) \subseteq Range(q.flags)
                     /\ Range(r.flags) # Range(q.flags))
                    => /\ q.confidence_score <= r.confidence_score
                       /\ r.confidence_score > 0
                              => q.confidence_score < r.confidence_score

\* an input scoring above 0 and another one reporting its flags and more
C16_Witness ==
    /\ Analyzed
    /\ Get(last.resp.analysis).confidence_score = 50
    /\ \E t \in RiskTelemetries :
           /\ Range(Get(last.resp.analysis).flags) \subseteq Range(RiskOf(t).flags)
           /\ Range(Get(last.resp.analysis).flags) # Range(RiskOf(t).flags)
           /\ RiskOf(t).confidence_score = 0

\* C16 (as written): the input with strictly more flags scores strictly
\* lower.
C16_MoreFlagsStrictlyLowerScore ==
    Analyzed =>
        LET r == Get(last.resp.analysis)
        IN  \A t \in RiskTelemetries :
                LET q == RiskOf(t)
                IN  (Range(r.flags) \subseteq Range(q.flags)
                     /\ Range(r.flags) # Range(q.flags))
                    => q.confidence_score < r.confidence_score

\* the tier the claim gives a score
TierOf(score) ==
    IF score >= 70 THEN [ risk_level |-> "low", difficulty |-> 15 ]
    ELSE IF score >= 40 THEN [ risk_level |-> "medium", difficulty |-> 19 ]
    ELSE [ risk_level |-> "high", difficulty |-> 22 ]

----------------------------------------------------------------------------
(* Claims about the happy path, checked under SpecHappy *)

\* at least 20 points, mixed velocity, at least one pause of 120 ms or more
Realistic(trajectory) ==
    LET timed == SelectSeq(trajectory, LAMBDA p : p.time_delta_ms > 0)
    IN  /\ Len(trajectory) >= 20
        /\ ~VarianceBelow([ i \in 1..Len(timed) |-> timed[i].velocity ], 30)
        /\ \E i \in 1..Len(trajectory) : trajectory[i].time_delta_ms >= 120

\* steps that vary (variance of the non-zero steps at least 0.2) and at
\* least four distinct integer slider values
VariedSteps(trajectory) ==
    LET moved == SelectSeq(trajectory, LAMBDA p : p.delta # 0)
    IN  /\ ~VarianceBelow([ i \in 1..Len(moved) |-> Abs(moved[i].delta) ], 2000)
        /\ Cardinality({ TruncCenti(trajectory[i].value) :
                            i \in 1..Len(trajectory) }) >= 4

\* a fingerprint no rule objects to
CleanFingerprint(fingerprint) ==
    /\ IsSome(fingerprint)
    /\ Get(fingerprint).user_agent_len >= 20
    /\ IsSome(Get(fingerprint).screen_resolution)
    /\ Get(Get(fingerprint).screen_resolution)[1] > 0
    /\ Get(Get(fingerprint).screen_resolution)[2] > 0
    /\ ~Get(fingerprint).webdriver
    /\ Get(fingerprint).timezone_name
    /\ Get(fingerprint).canvas_fingerprint

\* the step to last' is the happy solve of the scenario: an image-mode
\* verification for a stored session with slider_value = solved_keyframe, a
\* realistic trajectory, the behaviour 2500 / 1 / 15 / 18 and a valid PoW at
\* difficulty 15
HappySolve ==
    /\ last'.op = "verify_captcha"
    /\ last'.body.mode = "image"
    /\ last'.body.captcha_id \in DOMAIN captcha_sessions
    /\ last'.body.slider_value = captcha_sessions[last'.body.captcha_id].solved_value
    /\ Realistic(last'.body.telemetry.trajectory)
    /\ last'.body.telemetry.behavior = Some(Behavior(2500, 18, 1, 15))
    /\ last'.body.pow_difficulty = 15
    /\ last'.pow = None

\* C18 (as amended): the happy solve, sent with a fingerprint no rule
\* objects to and a trajectory whose steps vary, returns success true,
\* is_bot false and an empty flags list.
C18_HappySolveCleanClient ==
    [][ (/\ HappySolve
         /\ CleanFingerprint(last'.body.telemetry.fingerprint)
         /\ VariedSteps(last'.body.telemetry.trajectory))
        => /\ last'.resp.success
           /\ IsSome(last'.resp.analysis)
           /\ ~Get(last'.resp.analysis).is_bot
           /\ Get(last'.resp.analysis).flags = <<>>
      ]_vars

\* the happy solve was made and answered
C18_Witness ==
    /\ last.op = "verify_captcha"
    /\ last.pow = None
    /\ last.body.slider_value = 42
    /\ Len(last.body.telemetry.trajectory) = 20
    /\ CleanFingerprint(last.body.telemetry.fingerprint)
    /\ VariedSteps(last.body.telemetry.trajectory)
    /\ last.body.pow_difficulty = 15
    /\ last.resp.success
    /\ Get(last.resp.analysis).flags = <<>>

\* C18 (as written): the happy solve returns success true, is_bot false and
\* an empty flags list.
C18_HappySolve ==
    [][ HappySolve
        => /\ last'.resp.success
           /\ IsSome(last'.resp.analysis)
           /\ ~Get(last'.resp.analysis).is_bot
           /\ Get(last'.resp.analysis).flags = <<>>
      ]_vars

----------------------------------------------------------------------------
(* Further claims about challenge generation, checked under SpecGen *)

\* the keyframe positions of the challenge just generated
KeyframePositions ==
    _generate_keyframe_positions(last.draws.num_interior, last.draws.interiors)

\* none of the RETRIES draws of the run passed the gap test
FallbackTaken ==
    \A i \in 1..RETRIES :
        ~KeyframePositionsOk(<<0>> \o last.draws.interiors[Min(i, Len(last.draws.interiors))]
                                \o <<100>>)

CellOrigins == { 0, 100, 200 } \X { 0, 100, 200 }

\* the keyframes of a payload other than the one at the solved position
NonSolvedKeyframes ==
    DOMAIN last.payload.keyframes
        \ { ToString(captcha_sessions[last.id].solved_value) }

\* C22: every non-solved keyframe of a challenge lists each of the nine
\* pieces once and puts them on the nine cell origins, one piece per origin;
\* the nine piece ids of the challenge are distinct.
C22_ShuffledKeyframesArePermutations ==
    Generated =>
        /\ Cardinality(DOMAIN last.payload.pieces) = 9
        /\ \A k \in NonSolvedKeyframes :
               LET entries == last.payload.keyframes[k]
               IN  /\ Len(entries) = 9
                   /\ { entries[i].piece_id : i \in 1..9 } = DOMAIN last.payload.pieces
                   /\ { <<entries[i].x, entries[i].y>> : i \in 1..9 } = CellOrigins

\* a challenge cut with every bulb pointing left or up, whose keyframe at 0
\* is a shuffled one that puts the first piece listed on the last cell
C22_Witness ==
    /\ Generated
    /\ last.draws.edges = Tabs
    /\ "0" \in NonSolvedKeyframes
    /\ last.payload.keyframes["0"][1].x = 200
    /\ last.payload.keyframes["0"][1].y = 200
    /\ Cardinality(NonSolvedKeyframes) = 6

----------------------------------------------------------------------------
(* Claims about what a rejected request leaves behind *)

\* the errors of the gates that precede the session lookup
GateErrors == { ErrMissingCaptcha, ErrMissingPow } \cup PowErrors

\* C27: a verify-captcha request rejected for a missing captcha_id or
\* slider_value, for a missing PoW field or with a PoW error leaves both
\* session stores as they were and adds nothing to the nonce ledger; the
\* entries the ledger loses had expired.
C27_RejectedRequestChangesNothing ==
    [][ (/\ last'.op = "verify_captcha"
         /\ last'.resp.error \in GateErrors)
        => /\ captcha_sessions' = captcha_sessions
           /\ video_captcha_sessions' = video_captcha_sessions
           /\ DOMAIN pow_used_nonces' \subseteq DOMAIN pow_used_nonces
           /\ \A k \in DOMAIN pow_used_nonces' :
                  pow_used_nonces'[k] = pow_used_nonces[k]
           /\ \A k \in DOMAIN pow_used_nonces \ DOMAIN pow_used_nonces' :
                  pow_used_nonces[k] <= now
           /\ last'.resp.error \notin PowErrors
                  => pow_used_nonces' = pow_used_nonces
      ]_vars

\* a request whose nonce misses the target named a stored video session,
\* with an image session stored as well and an entry in the ledger
C27_Witness ==
    /\ last.op = "verify_captcha"
    /\ last.pow = ErrHash
    /\ last.body.mode = "video"
    /\ last.id \in DOMAIN video_captcha_sessions
    /\ captcha_sessions # << >>
    /\ pow_used_nonces # << >>

\* C28: the (salt, nonce) of a request that passed the PoW gate is burned,
\* whatever the request then met: a later request with a valid signature
\* that carries the same salt and nonce within the challenge lifetime gets
\* "PoW nonce already used".
C28_GatedNonceStaysBurned ==
    [][ (/\ last'.op = "verify_captcha"
         /\ last'.pow \notin { NotCalled, ErrSignature, ErrExpired }
         /\ <<last'.body.pow_salt, last'.body.pow_nonce>> \in DOMAIN pow_successes)
        => last'.pow = ErrReplay
      ]_vars

----------------------------------------------------------------------------
(* Claims about the jigsaw cut, checked under SpecCut *)

\* C25: two pieces that share an interior border lay down the one point list
\* stored for it, one as stored and the other reversed: the bottom side of
\* piece (r, c) is the reverse of the top side of piece (r+1, c) and the left
\* side of piece (r, c+1) is the reverse of the right side of piece (r, c);
\* a side on the outer border is the straight edge of the cell; the polygon
\* of a piece is its four sides in clockwise order and spans the bounding
\* box the piece is cropped to.
C25_SharedBordersAreMirrored ==
    Generated =>
        \A points \in { EdgePoints(last.draws.edges) } :
        LET N == GRID_SIZE - 1
        IN  /\ \A r \in 0..(N - 1) : \A c \in 0..N :
                   /\ TopSide(r + 1, c, points) = points.h[<<r + 1, c>>]
                   /\ BottomSide(r, c, points) = Reverse(TopSide(r + 1, c, points))
            /\ \A r \in 0..N : \A c \in 0..(N - 1) :
                   /\ RightSide(r, c, points) = points.v[<<r, c + 1>>]
                   /\ LeftSide(r, c + 1, points) = Reverse(RightSide(r, c, points))
            /\ \A k \in 0..N :
                   /\ Len(TopSide(0, k, points)) = 2
                   /\ Len(BottomSide(N, k, points)) = 2
                   /\ Len(LeftSide(k, 0, points)) = 2
                   /\ Len(RightSide(k, N, points)) = 2
                   /\ TopSide(0, k, points)[1][2] = 0 /\ TopSide(0, k, points)[2][2] = 0
                   /\ LeftSide(k, 0, points)[1][1] = 0 /\ LeftSide(k, 0, points)[2][1] = 0
            /\ \A r \in 0..N : \A c \in 0..N :
                   PolygonBox(_build_piece_polygon(r, c, points))
                       = BoundingBox(r, c, last.draws.edges)

\* a cut whose bulbs alternate: the centre piece has a bulb of its own on
\* top and a socket below
C25_Witness ==
    /\ Generated
    /\ last.draws.edges.h = Mixed.h
    /\ last.draws.edges.v = Mixed.v
    /\ Len(TopSide(1, 1, EdgePoints(Mixed))) = 93
    /\ BottomSide(1, 1, EdgePoints(Mixed))[1] = Corner(200, 200)
    /\ TopSide(2, 1, EdgePoints(Mixed))[1] = Corner(100, 200)

----------------------------------------------------------------------------
(* Claims about the video compositor, checked under SpecBounce *)

Bounced == last.op = "_bounce_pos"
Composed == last.op = "overlay_origin"

\* the result lies in [minimum, maximum], and is minimum when the interval
\* is empty or a single point
BounceInside ==
    Bounced =>
        IF last.body.maximum <= last.body.minimum
        THEN last.resp = last.body.minimum
        ELSE last.body.minimum <= last.resp /\ last.resp <= last.body.maximum

\* the overlay origin of a frame lies in [0, W - roi_size] x [0, H - roi_size]
OriginInside ==
    Composed =>
        /\ 0 <= last.resp.cx /\ last.resp.cx <= last.body.shape[1] - last.body.roi_size
        /\ 0 <= last.resp.cy /\ last.resp.cy <= last.body.shape[2] - last.body.roi_size

ValueInside ==
    /\ Bounced
    /\ last.body.minimum * FINE <= last.body.value
    /\ last.body.value <= last.body.maximum * FINE

----------------------------------------------------------------------------
(* Claims about the video stream, checked under SpecStreamLive and SpecStream *)

Gone(s) == streams[s].captcha_id \notin DOMAIN video_captcha_sessions
Ended(s) == streams[s].pc = "done"

\* a step of the generator s from the line `from`
StepsFrom(s, from) ==
    /\ s \in DOMAIN streams
    /\ streams[s].pc = from
    /\ streams'[s].pc # from

\* C23: a loop head reached after the session was removed ends the loop, so
\* a frame is yielded only by an iteration that began while the session was
\* stored; a generator that ended (session removed, or closed because the
\* client left) no longer holds an open decoder; a failed read at the end
\* of the asset rewinds to frame 0 and goes on with the loop; and, when the
\* generator is run and its frames are consumed or it is closed, a stream
\* whose session is removed does end.
C23_StreamEndsWithSession ==
    /\ [][ \A s \in 1..MaxStreams :
              /\ (StepsFrom(s, "top") /\ Gone(s))
                     => (streams'[s].pc = "done" /\ streams'[s].cap = "released")
              /\ (StepsFrom(s, "compose") /\ streams'[s].pc = "yielded")
                     => streams[s].alive
              /\ (StepsFrom(s, "read") /\ streams[s].pos = FrameCount)
                     => /\ streams'[s].pc = "top"
                        /\ streams'[s].pos = 0
                        /\ streams'[s].cap = "open"
          ]_vars
    /\ [](\A s \in DOMAIN streams : Ended(s) => streams[s].cap # "open")
    /\ \A s \in 1..MaxStreams :
          (s \in DOMAIN streams /\ Gone(s))
              ~> (s \in DOMAIN streams /\ Ended(s) /\ streams[s].cap # "open")

\* a stream that yielded a frame and then ended at its loop head, decoder
\* released, after a verification removed the session
C23_Witness ==
    /\ streams # << >>
    /\ Ended(1) /\ Gone(1)
    /\ streams[1].cap = "released"
    /\ IsSome(streams[1].frame)
    /\ ~streams[1].alive
    /\ streams[1].challenge = Nothing

\* C24: every stored video session has current_slider in [0, 1], equal to
\* clamp(slider_value / 1000, 0, 1) of the last update answered success: true
\* and to 0 before any; an update that is refused (unknown captcha_id, missing
\* field) changes no session; and a frame composed while the session is stored
\* uses the value current_slider has at that instant, the value before an
\* update that is still to come and after one that has been made.
C24_SliderIsLastWrite ==
    /\ [](\A id \in DOMAIN video_captcha_sessions :
            /\ 0 <= video_captcha_sessions[id].current_slider
            /\ video_captcha_sessions[id].current_slider <= UNIT
            /\ video_captcha_sessions[id].current_slider =
                   IF id \in DOMAIN slider_updates
                   THEN Max(0, Min(UNIT, slider_updates[id] * 1000))
                   ELSE 0)
    /\ [][ (last'.op = "update_video_slider" /\ ~last'.resp.success)
              => UNCHANGED <<video_captcha_sessions, streams>> ]_vars
    /\ [][ \A s \in 1..MaxStreams :
              (StepsFrom(s, "compose") /\ ~Gone(s))
                 => Get(streams'[s].frame).slider_val =
                        video_captcha_sessions[streams[s].captcha_id].current_slider
          ]_vars

\* the slider was moved to 600 and then beyond the end: the session holds
\* 1.0 while the frame yielded last was composed with 0.6
C24_Witness ==
    /\ last.op = "update_video_slider"
    /\ last.resp.success
    /\ last.body.slider_value = 1500
    /\ video_captcha_sessions[last.id].current_slider = UNIT
    /\ streams # << >>
    /\ streams[1].pc = "yielded"
    /\ Get(streams[1].frame).slider_val = 600000
    /\ Get(streams[1].challenge).current_slider = UNIT

============================================================================
